---- MODULE Spec2Model ----
(***************************************************************************)
(* Model of the supermarket MCP server: the two tools of main.py           *)
(* (get_coles_products, get_woolworths_products) and the Woolworths        *)
(* response normaliser search_products of src/supermarkets/woolworths.py.  *)
(*                                                                         *)
(* Representation.                                                         *)
(*  - A Python str is a sequence of characters, "1kg" is <<"1","k","g">>.  *)
(*    A printable ASCII character is itself; tab, line feed and carriage   *)
(*    return are "\t", "\n", "\r"; any other character is "<U+XXXX>", its  *)
(*    code point in hexadecimal ("<U+212A>" is the Kelvin sign; the form   *)
(*    feed is "<U+000C>" or "\f").  The characters of the model are those  *)
(*    of Latin-1 (U+0000 to U+00FF, the control characters included), the  *)
(*    white space and the decimal digits of Unicode, and U+0130, U+0307,   *)
(*    U+212A, U+212B.                                                      *)
(*    A text produced by an f-string is the same kind of sequence in which *)
(*    a literal fragment of the template is kept as one element; the       *)
(*    Python string is the concatenation of the elements.                  *)
(*  - A decoded JSON value is a tagged record: Null, Bool(b), an int, a    *)
(*    float, Str(s), List(l), Dict(items) with items the sequence of       *)
(*    <<key, value>> pairs in insertion order, the keys being str.         *)
(*  - An int is PyInt(neg, ds), its sign and the numeral of its absolute   *)
(*    value (the sequence of its decimal digits, without leading zeros;    *)
(*    zero is PyInt(FALSE, <<"0">>)); it has no bound.  Num(n) is the int  *)
(*    of an integer n below 2^31: Num(-12) is PyInt(TRUE, <<"1","2">>).    *)
(*  - A float is an IEEE 754 double: Inf(neg), NaN or Fin(neg, m, q), the   *)
(*    number m * 2^q with its sign, m an odd natural number below 2^53     *)
(*    written as a numeral, or zero:                                       *)
(*    3.5 is Fin(FALSE, <<"7">>, -1), -0.0 is Fin(TRUE, <<"0">>, 0).       *)
(*  - A Python call that may raise yields [raised |-> TRUE, message |-> m] *)
(*    or [raised |-> FALSE, value |-> v].                                  *)
(***************************************************************************)
EXTENDS Integers, Sequences, FiniteSets, TLC

VARIABLES tool, query, limit, response, pc, search_results, products, result,
          inv, queue

vars == <<tool, query, limit, response, pc, search_results, products, result,
          inv, queue>>

(***************************************************************************)
(* Python values                                                           *)
(***************************************************************************)
Null == [t |-> "null"]
Bool(b) == [t |-> "bool", b |-> b]
Str(s) == [t |-> "str", s |-> s]
PyInt(neg, ds) == [t |-> "num", neg |-> neg, ds |-> ds]
List(l) == [t |-> "list", l |-> l]
Dict(items) == [t |-> "dict", items |-> items]

IsStr(v) == v.t = "str"
IsList(v) == v.t = "list"
IsDict(v) == v.t = "dict"

\* bool(v): the truth value Python gives a value
Truthy(v) ==
  CASE v.t = "null" -> FALSE
    [] v.t = "bool" -> v.b
    [] v.t = "str" -> Len(v.s) > 0
    [] v.t = "num" -> v.ds # <<"0">>
    [] v.t = "float" -> v.k # "fin" \/ v.m # <<"0">>
    [] v.t = "list" -> Len(v.l) > 0
    [] v.t = "dict" -> Len(v.items) > 0

\* type(v).__name__, as it appears in exception messages
TypeName(v) ==
  CASE v.t = "null" -> "NoneType"
    [] v.t = "bool" -> "bool"
    [] v.t = "str" -> "str"
    [] v.t = "num" -> "int"
    [] v.t = "float" -> "float"
    [] v.t = "list" -> "list"
    [] v.t = "dict" -> "dict"

Raise(m) == [raised |-> TRUE, message |-> m]
Return(v) == [raised |-> FALSE, value |-> v]

\* key in dict
HasKey(dv, key) == \E i \in 1..Len(dv.items) : dv.items[i][1] = key

\* dict.get(key, default)
Get(dv, key, default) ==
  IF HasKey(dv, key)
  THEN dv.items[CHOOSE i \in 1..Len(dv.items) : dv.items[i][1] = key][2]
  ELSE default

\* the string literals of the source that are keys
Key ==
  [ Products |-> <<"P","r","o","d","u","c","t","s">>,
    Stockcode |-> <<"S","t","o","c","k","c","o","d","e">>,
    DisplayName |-> <<"D","i","s","p","l","a","y","N","a","m","e">>,
    Name |-> <<"N","a","m","e">>,
    Price |-> <<"P","r","i","c","e">>,
    InstorePrice |-> <<"I","n","s","t","o","r","e","P","r","i","c","e">>,
    WasPrice |-> <<"W","a","s","P","r","i","c","e">>,
    PackageSize |-> <<"P","a","c","k","a","g","e","S","i","z","e">>,
    CupString |-> <<"C","u","p","S","t","r","i","n","g">>,
    CupMeasure |-> <<"C","u","p","M","e","a","s","u","r","e">>,
    Unit |-> <<"U","n","i","t">> ]

(***************************************************************************)
(* Strings                                                                 *)
(***************************************************************************)
\* the characters str.lower() changes, and what it makes of each
UpperCase ==
  <<"A", "B", "C", "D", "E", "F", "G", "H", "I", "J", "K", "L", "M", "N",
    "O", "P", "Q", "R", "S", "T", "U", "V", "W", "X", "Y", "Z", "<U+00C0>",
    "<U+00C1>", "<U+00C2>", "<U+00C3>", "<U+00C4>", "<U+00C5>", "<U+00C6>",
    "<U+00C7>", "<U+00C8>", "<U+00C9>", "<U+00CA>", "<U+00CB>", "<U+00CC>",
    "<U+00CD>", "<U+00CE>", "<U+00CF>", "<U+00D0>", "<U+00D1>", "<U+00D2>",
    "<U+00D3>", "<U+00D4>", "<U+00D5>", "<U+00D6>", "<U+00D8>", "<U+00D9>",
    "<U+00DA>", "<U+00DB>", "<U+00DC>", "<U+00DD>", "<U+00DE>", "<U+0130>",
    "<U+212A>", "<U+212B>" >>
LowerCase ==
  <<<<"a">>, <<"b">>, <<"c">>, <<"d">>, <<"e">>, <<"f">>, <<"g">>, <<"h">>,
    <<"i">>, <<"j">>, <<"k">>, <<"l">>, <<"m">>, <<"n">>, <<"o">>, <<"p">>,
    <<"q">>, <<"r">>, <<"s">>, <<"t">>, <<"u">>, <<"v">>, <<"w">>, <<"x">>,
    <<"y">>, <<"z">>, <<"<U+00E0>">>, <<"<U+00E1>">>, <<"<U+00E2>">>,
    <<"<U+00E3>">>, <<"<U+00E4>">>, <<"<U+00E5>">>, <<"<U+00E6>">>,
    <<"<U+00E7>">>, <<"<U+00E8>">>, <<"<U+00E9>">>, <<"<U+00EA>">>,
    <<"<U+00EB>">>, <<"<U+00EC>">>, <<"<U+00ED>">>, <<"<U+00EE>">>,
    <<"<U+00EF>">>, <<"<U+00F0>">>, <<"<U+00F1>">>, <<"<U+00F2>">>,
    <<"<U+00F3>">>, <<"<U+00F4>">>, <<"<U+00F5>">>, <<"<U+00F6>">>,
    <<"<U+00F8>">>, <<"<U+00F9>">>, <<"<U+00FA>">>, <<"<U+00FB>">>,
    <<"<U+00FC>">>, <<"<U+00FD>">>, <<"<U+00FE>">>, <<"i", "<U+0307>">>,
    <<"k">>, <<"<U+00E5>">> >>

Uppers == {UpperCase[i] : i \in DOMAIN UpperCase}

\* c.lower(): one character, or two for U+0130
LowerChar(c) ==
  IF c \in Uppers
  THEN LowerCase[CHOOSE i \in DOMAIN UpperCase : UpperCase[i] = c]
  ELSE <<c>>

\* str.lower()
RECURSIVE Lower(_)
Lower(s) ==
  IF Len(s) = 0 THEN <<>>
  ELSE IF Len(s) = 1 THEN LowerChar(s[1])
  ELSE Lower(SubSeq(s, 1, Len(s) \div 2)) \o Lower(SubSeq(s, (Len(s) \div 2) + 1, Len(s)))

\* sub in s
Contains(sub, s) ==
  \E i \in 0..(Len(s) - Len(sub)) : SubSeq(s, i + 1, i + Len(sub)) = sub

\* the white space of ASCII that C's isspace knows
AsciiSpaces == {" ", "\t", "\n", "\r", "\f", "<U+000B>", "<U+000C>"}

\* the separators U+001C to U+001F, white space for str only
SeparatorSpaces == {"<U+001C>", "<U+001D>", "<U+001E>", "<U+001F>"}

\* the white space beyond ASCII
UnicodeSpaces ==
  {"<U+0085>", "<U+00A0>", "<U+1680>", "<U+2000>", "<U+2001>", "<U+2002>",
    "<U+2003>", "<U+2004>", "<U+2005>", "<U+2006>", "<U+2007>", "<U+2008>",
    "<U+2009>", "<U+200A>", "<U+2028>", "<U+2029>", "<U+202F>", "<U+205F>",
    "<U+3000>" }

WhiteSpace == AsciiSpaces \cup SeparatorSpaces \cup UnicodeSpaces

\* c.isspace()
IsSpace(c) == c \in WhiteSpace

\* least and greatest element of a non-empty set of integers
Least(S) == CHOOSE i \in S : \A j \in S : i <= j
Greatest(S) == 0 - Least({0 - i : i \in S})

\* s between the first and the last of the positions keep
Between(s, keep) == IF keep = {} THEN <<>> ELSE SubSeq(s, Least(keep), Greatest(keep))

\* str.strip()
Strip(s) == Between(s, {i \in 1..Len(s) : ~IsSpace(s[i])})

\* s after the last of the positions at, the whole s if there is none
After(s, at) == IF at = {} THEN s ELSE SubSeq(s, Greatest(at) + 1, Len(s))

\* s.split(sep)[-1]: what follows the last separator, the whole s if none
LastPart(s, sep) == After(s, {i \in 1..Len(s) : s[i] = sep})

\* len(s.split(sep))
PartCount(s, sep) == Cardinality({i \in 1..Len(s) : s[i] = sep}) + 1

DigitChars == <<"0","1","2","3","4","5","6","7","8","9">>
AsciiDigits == {DigitChars[i] : i \in 1..10}

\* the decimal digits of Unicode, zero to nine in each script
DecimalDigits ==
  << <<"0", "1", "2", "3", "4", "5", "6", "7", "8", "9">>,
     <<"<U+0660>", "<U+0661>", "<U+0662>", "<U+0663>", "<U+0664>", "<U+0665>", "<U+0666>", "<U+0667>", "<U+0668>", "<U+0669>">>,
     <<"<U+06F0>", "<U+06F1>", "<U+06F2>", "<U+06F3>", "<U+06F4>", "<U+06F5>", "<U+06F6>", "<U+06F7>", "<U+06F8>", "<U+06F9>">>,
     <<"<U+07C0>", "<U+07C1>", "<U+07C2>", "<U+07C3>", "<U+07C4>", "<U+07C5>", "<U+07C6>", "<U+07C7>", "<U+07C8>", "<U+07C9>">>,
     <<"<U+0966>", "<U+0967>", "<U+0968>", "<U+0969>", "<U+096A>", "<U+096B>", "<U+096C>", "<U+096D>", "<U+096E>", "<U+096F>">>,
     <<"<U+09E6>", "<U+09E7>", "<U+09E8>", "<U+09E9>", "<U+09EA>", "<U+09EB>", "<U+09EC>", "<U+09ED>", "<U+09EE>", "<U+09EF>">>,
     <<"<U+0A66>", "<U+0A67>", "<U+0A68>", "<U+0A69>", "<U+0A6A>", "<U+0A6B>", "<U+0A6C>", "<U+0A6D>", "<U+0A6E>", "<U+0A6F>">>,
     <<"<U+0AE6>", "<U+0AE7>", "<U+0AE8>", "<U+0AE9>", "<U+0AEA>", "<U+0AEB>", "<U+0AEC>", "<U+0AED>", "<U+0AEE>", "<U+0AEF>">>,
     <<"<U+0B66>", "<U+0B67>", "<U+0B68>", "<U+0B69>", "<U+0B6A>", "<U+0B6B>", "<U+0B6C>", "<U+0B6D>", "<U+0B6E>", "<U+0B6F>">>,
     <<"<U+0BE6>", "<U+0BE7>", "<U+0BE8>", "<U+0BE9>", "<U+0BEA>", "<U+0BEB>", "<U+0BEC>", "<U+0BED>", "<U+0BEE>", "<U+0BEF>">>,
     <<"<U+0C66>", "<U+0C67>", "<U+0C68>", "<U+0C69>", "<U+0C6A>", "<U+0C6B>", "<U+0C6C>", "<U+0C6D>", "<U+0C6E>", "<U+0C6F>">>,
     <<"<U+0CE6>", "<U+0CE7>", "<U+0CE8>", "<U+0CE9>", "<U+0CEA>", "<U+0CEB>", "<U+0CEC>", "<U+0CED>", "<U+0CEE>", "<U+0CEF>">>,
     <<"<U+0D66>", "<U+0D67>", "<U+0D68>", "<U+0D69>", "<U+0D6A>", "<U+0D6B>", "<U+0D6C>", "<U+0D6D>", "<U+0D6E>", "<U+0D6F>">>,
     <<"<U+0DE6>", "<U+0DE7>", "<U+0DE8>", "<U+0DE9>", "<U+0DEA>", "<U+0DEB>", "<U+0DEC>", "<U+0DED>", "<U+0DEE>", "<U+0DEF>">>,
     <<"<U+0E50>", "<U+0E51>", "<U+0E52>", "<U+0E53>", "<U+0E54>", "<U+0E55>", "<U+0E56>", "<U+0E57>", "<U+0E58>", "<U+0E59>">>,
     <<"<U+0ED0>", "<U+0ED1>", "<U+0ED2>", "<U+0ED3>", "<U+0ED4>", "<U+0ED5>", "<U+0ED6>", "<U+0ED7>", "<U+0ED8>", "<U+0ED9>">>,
     <<"<U+0F20>", "<U+0F21>", "<U+0F22>", "<U+0F23>", "<U+0F24>", "<U+0F25>", "<U+0F26>", "<U+0F27>", "<U+0F28>", "<U+0F29>">>,
     <<"<U+1040>", "<U+1041>", "<U+1042>", "<U+1043>", "<U+1044>", "<U+1045>", "<U+1046>", "<U+1047>", "<U+1048>", "<U+1049>">>,
     <<"<U+1090>", "<U+1091>", "<U+1092>", "<U+1093>", "<U+1094>", "<U+1095>", "<U+1096>", "<U+1097>", "<U+1098>", "<U+1099>">>,
     <<"<U+17E0>", "<U+17E1>", "<U+17E2>", "<U+17E3>", "<U+17E4>", "<U+17E5>", "<U+17E6>", "<U+17E7>", "<U+17E8>", "<U+17E9>">>,
     <<"<U+1810>", "<U+1811>", "<U+1812>", "<U+1813>", "<U+1814>", "<U+1815>", "<U+1816>", "<U+1817>", "<U+1818>", "<U+1819>">>,
     <<"<U+1946>", "<U+1947>", "<U+1948>", "<U+1949>", "<U+194A>", "<U+194B>", "<U+194C>", "<U+194D>", "<U+194E>", "<U+194F>">>,
     <<"<U+19D0>", "<U+19D1>", "<U+19D2>", "<U+19D3>", "<U+19D4>", "<U+19D5>", "<U+19D6>", "<U+19D7>", "<U+19D8>", "<U+19D9>">>,
     <<"<U+1A80>", "<U+1A81>", "<U+1A82>", "<U+1A83>", "<U+1A84>", "<U+1A85>", "<U+1A86>", "<U+1A87>", "<U+1A88>", "<U+1A89>">>,
     <<"<U+1A90>", "<U+1A91>", "<U+1A92>", "<U+1A93>", "<U+1A94>", "<U+1A95>", "<U+1A96>", "<U+1A97>", "<U+1A98>", "<U+1A99>">>,
     <<"<U+1B50>", "<U+1B51>", "<U+1B52>", "<U+1B53>", "<U+1B54>", "<U+1B55>", "<U+1B56>", "<U+1B57>", "<U+1B58>", "<U+1B59>">>,
     <<"<U+1BB0>", "<U+1BB1>", "<U+1BB2>", "<U+1BB3>", "<U+1BB4>", "<U+1BB5>", "<U+1BB6>", "<U+1BB7>", "<U+1BB8>", "<U+1BB9>">>,
     <<"<U+1C40>", "<U+1C41>", "<U+1C42>", "<U+1C43>", "<U+1C44>", "<U+1C45>", "<U+1C46>", "<U+1C47>", "<U+1C48>", "<U+1C49>">>,
     <<"<U+1C50>", "<U+1C51>", "<U+1C52>", "<U+1C53>", "<U+1C54>", "<U+1C55>", "<U+1C56>", "<U+1C57>", "<U+1C58>", "<U+1C59>">>,
     <<"<U+A620>", "<U+A621>", "<U+A622>", "<U+A623>", "<U+A624>", "<U+A625>", "<U+A626>", "<U+A627>", "<U+A628>", "<U+A629>">>,
     <<"<U+A8D0>", "<U+A8D1>", "<U+A8D2>", "<U+A8D3>", "<U+A8D4>", "<U+A8D5>", "<U+A8D6>", "<U+A8D7>", "<U+A8D8>", "<U+A8D9>">>,
     <<"<U+A900>", "<U+A901>", "<U+A902>", "<U+A903>", "<U+A904>", "<U+A905>", "<U+A906>", "<U+A907>", "<U+A908>", "<U+A909>">>,
     <<"<U+A9D0>", "<U+A9D1>", "<U+A9D2>", "<U+A9D3>", "<U+A9D4>", "<U+A9D5>", "<U+A9D6>", "<U+A9D7>", "<U+A9D8>", "<U+A9D9>">>,
     <<"<U+A9F0>", "<U+A9F1>", "<U+A9F2>", "<U+A9F3>", "<U+A9F4>", "<U+A9F5>", "<U+A9F6>", "<U+A9F7>", "<U+A9F8>", "<U+A9F9>">>,
     <<"<U+AA50>", "<U+AA51>", "<U+AA52>", "<U+AA53>", "<U+AA54>", "<U+AA55>", "<U+AA56>", "<U+AA57>", "<U+AA58>", "<U+AA59>">>,
     <<"<U+ABF0>", "<U+ABF1>", "<U+ABF2>", "<U+ABF3>", "<U+ABF4>", "<U+ABF5>", "<U+ABF6>", "<U+ABF7>", "<U+ABF8>", "<U+ABF9>">>,
     <<"<U+FF10>", "<U+FF11>", "<U+FF12>", "<U+FF13>", "<U+FF14>", "<U+FF15>", "<U+FF16>", "<U+FF17>", "<U+FF18>", "<U+FF19>">>,
     <<"<U+104A0>", "<U+104A1>", "<U+104A2>", "<U+104A3>", "<U+104A4>", "<U+104A5>", "<U+104A6>", "<U+104A7>", "<U+104A8>", "<U+104A9>">>,
     <<"<U+10D30>", "<U+10D31>", "<U+10D32>", "<U+10D33>", "<U+10D34>", "<U+10D35>", "<U+10D36>", "<U+10D37>", "<U+10D38>", "<U+10D39>">>,
     <<"<U+11066>", "<U+11067>", "<U+11068>", "<U+11069>", "<U+1106A>", "<U+1106B>", "<U+1106C>", "<U+1106D>", "<U+1106E>", "<U+1106F>">>,
     <<"<U+110F0>", "<U+110F1>", "<U+110F2>", "<U+110F3>", "<U+110F4>", "<U+110F5>", "<U+110F6>", "<U+110F7>", "<U+110F8>", "<U+110F9>">>,
     <<"<U+11136>", "<U+11137>", "<U+11138>", "<U+11139>", "<U+1113A>", "<U+1113B>", "<U+1113C>", "<U+1113D>", "<U+1113E>", "<U+1113F>">>,
     <<"<U+111D0>", "<U+111D1>", "<U+111D2>", "<U+111D3>", "<U+111D4>", "<U+111D5>", "<U+111D6>", "<U+111D7>", "<U+111D8>", "<U+111D9>">>,
     <<"<U+112F0>", "<U+112F1>", "<U+112F2>", "<U+112F3>", "<U+112F4>", "<U+112F5>", "<U+112F6>", "<U+112F7>", "<U+112F8>", "<U+112F9>">>,
     <<"<U+11450>", "<U+11451>", "<U+11452>", "<U+11453>", "<U+11454>", "<U+11455>", "<U+11456>", "<U+11457>", "<U+11458>", "<U+11459>">>,
     <<"<U+114D0>", "<U+114D1>", "<U+114D2>", "<U+114D3>", "<U+114D4>", "<U+114D5>", "<U+114D6>", "<U+114D7>", "<U+114D8>", "<U+114D9>">>,
     <<"<U+11650>", "<U+11651>", "<U+11652>", "<U+11653>", "<U+11654>", "<U+11655>", "<U+11656>", "<U+11657>", "<U+11658>", "<U+11659>">>,
     <<"<U+116C0>", "<U+116C1>", "<U+116C2>", "<U+116C3>", "<U+116C4>", "<U+116C5>", "<U+116C6>", "<U+116C7>", "<U+116C8>", "<U+116C9>">>,
     <<"<U+11730>", "<U+11731>", "<U+11732>", "<U+11733>", "<U+11734>", "<U+11735>", "<U+11736>", "<U+11737>", "<U+11738>", "<U+11739>">>,
     <<"<U+118E0>", "<U+118E1>", "<U+118E2>", "<U+118E3>", "<U+118E4>", "<U+118E5>", "<U+118E6>", "<U+118E7>", "<U+118E8>", "<U+118E9>">>,
     <<"<U+11950>", "<U+11951>", "<U+11952>", "<U+11953>", "<U+11954>", "<U+11955>", "<U+11956>", "<U+11957>", "<U+11958>", "<U+11959>">>,
     <<"<U+11C50>", "<U+11C51>", "<U+11C52>", "<U+11C53>", "<U+11C54>", "<U+11C55>", "<U+11C56>", "<U+11C57>", "<U+11C58>", "<U+11C59>">>,
     <<"<U+11D50>", "<U+11D51>", "<U+11D52>", "<U+11D53>", "<U+11D54>", "<U+11D55>", "<U+11D56>", "<U+11D57>", "<U+11D58>", "<U+11D59>">>,
     <<"<U+11DA0>", "<U+11DA1>", "<U+11DA2>", "<U+11DA3>", "<U+11DA4>", "<U+11DA5>", "<U+11DA6>", "<U+11DA7>", "<U+11DA8>", "<U+11DA9>">>,
     <<"<U+16A60>", "<U+16A61>", "<U+16A62>", "<U+16A63>", "<U+16A64>", "<U+16A65>", "<U+16A66>", "<U+16A67>", "<U+16A68>", "<U+16A69>">>,
     <<"<U+16AC0>", "<U+16AC1>", "<U+16AC2>", "<U+16AC3>", "<U+16AC4>", "<U+16AC5>", "<U+16AC6>", "<U+16AC7>", "<U+16AC8>", "<U+16AC9>">>,
     <<"<U+16B50>", "<U+16B51>", "<U+16B52>", "<U+16B53>", "<U+16B54>", "<U+16B55>", "<U+16B56>", "<U+16B57>", "<U+16B58>", "<U+16B59>">>,
     <<"<U+1D7CE>", "<U+1D7CF>", "<U+1D7D0>", "<U+1D7D1>", "<U+1D7D2>", "<U+1D7D3>", "<U+1D7D4>", "<U+1D7D5>", "<U+1D7D6>", "<U+1D7D7>">>,
     <<"<U+1D7D8>", "<U+1D7D9>", "<U+1D7DA>", "<U+1D7DB>", "<U+1D7DC>", "<U+1D7DD>", "<U+1D7DE>", "<U+1D7DF>", "<U+1D7E0>", "<U+1D7E1>">>,
     <<"<U+1D7E2>", "<U+1D7E3>", "<U+1D7E4>", "<U+1D7E5>", "<U+1D7E6>", "<U+1D7E7>", "<U+1D7E8>", "<U+1D7E9>", "<U+1D7EA>", "<U+1D7EB>">>,
     <<"<U+1D7EC>", "<U+1D7ED>", "<U+1D7EE>", "<U+1D7EF>", "<U+1D7F0>", "<U+1D7F1>", "<U+1D7F2>", "<U+1D7F3>", "<U+1D7F4>", "<U+1D7F5>">>,
     <<"<U+1D7F6>", "<U+1D7F7>", "<U+1D7F8>", "<U+1D7F9>", "<U+1D7FA>", "<U+1D7FB>", "<U+1D7FC>", "<U+1D7FD>", "<U+1D7FE>", "<U+1D7FF>">>,
     <<"<U+1E140>", "<U+1E141>", "<U+1E142>", "<U+1E143>", "<U+1E144>", "<U+1E145>", "<U+1E146>", "<U+1E147>", "<U+1E148>", "<U+1E149>">>,
     <<"<U+1E2F0>", "<U+1E2F1>", "<U+1E2F2>", "<U+1E2F3>", "<U+1E2F4>", "<U+1E2F5>", "<U+1E2F6>", "<U+1E2F7>", "<U+1E2F8>", "<U+1E2F9>">>,
     <<"<U+1E950>", "<U+1E951>", "<U+1E952>", "<U+1E953>", "<U+1E954>", "<U+1E955>", "<U+1E956>", "<U+1E957>", "<U+1E958>", "<U+1E959>">>,
     <<"<U+1FBF0>", "<U+1FBF1>", "<U+1FBF2>", "<U+1FBF3>", "<U+1FBF4>", "<U+1FBF5>", "<U+1FBF6>", "<U+1FBF7>", "<U+1FBF8>", "<U+1FBF9>">> >>

DecimalChars == {DecimalDigits[b][d] : b \in DOMAIN DecimalDigits, d \in 1..10}

\* c is a decimal digit
IsDigit(c) == c \in DecimalChars

\* the value of a decimal digit
DigitVal(c) ==
  (CHOOSE d \in 1..10 : \E b \in DOMAIN DecimalDigits : DecimalDigits[b][d] = c) - 1

\* str(n) for a natural number
RECURSIVE Digits(_)
Digits(n) ==
  IF n < 10 THEN <<DigitChars[n + 1]>>
  ELSE Digits(n \div 10) \o <<DigitChars[(n % 10) + 1]>>

\* int(s) for a string of digits
RECURSIVE DigitsValue(_)
DigitsValue(s) ==
  IF Len(s) = 0 THEN 0
  ELSE 10 * DigitsValue(SubSeq(s, 1, Len(s) - 1)) + DigitVal(s[Len(s)])

Zeros(n) == [i \in 1..n |-> "0"]

\* the int of an integer n
Num(n) == PyInt(n < 0, IF n < 0 THEN Digits(0 - n) ELSE Digits(n))

(***************************************************************************)
(* repr() of a str                                                         *)
(***************************************************************************)
\* the characters repr() writes as \xNN or \uNNNN
HexEscapes ==
  <<<<"<U+0000>", <<"\\", "x", "0", "0">>>>,
    <<"<U+0001>", <<"\\", "x", "0", "1">>>>,
    <<"<U+0002>", <<"\\", "x", "0", "2">>>>,
    <<"<U+0003>", <<"\\", "x", "0", "3">>>>,
    <<"<U+0004>", <<"\\", "x", "0", "4">>>>,
    <<"<U+0005>", <<"\\", "x", "0", "5">>>>,
    <<"<U+0006>", <<"\\", "x", "0", "6">>>>,
    <<"<U+0007>", <<"\\", "x", "0", "7">>>>,
    <<"<U+0008>", <<"\\", "x", "0", "8">>>>,
    <<"<U+000B>", <<"\\", "x", "0", "b">>>>,
    <<"<U+000C>", <<"\\", "x", "0", "c">>>>,
    <<"\f", <<"\\", "x", "0", "c">>>>,
    <<"<U+000E>", <<"\\", "x", "0", "e">>>>,
    <<"<U+000F>", <<"\\", "x", "0", "f">>>>,
    <<"<U+0010>", <<"\\", "x", "1", "0">>>>,
    <<"<U+0011>", <<"\\", "x", "1", "1">>>>,
    <<"<U+0012>", <<"\\", "x", "1", "2">>>>,
    <<"<U+0013>", <<"\\", "x", "1", "3">>>>,
    <<"<U+0014>", <<"\\", "x", "1", "4">>>>,
    <<"<U+0015>", <<"\\", "x", "1", "5">>>>,
    <<"<U+0016>", <<"\\", "x", "1", "6">>>>,
    <<"<U+0017>", <<"\\", "x", "1", "7">>>>,
    <<"<U+0018>", <<"\\", "x", "1", "8">>>>,
    <<"<U+0019>", <<"\\", "x", "1", "9">>>>,
    <<"<U+001A>", <<"\\", "x", "1", "a">>>>,
    <<"<U+001B>", <<"\\", "x", "1", "b">>>>,
    <<"<U+001C>", <<"\\", "x", "1", "c">>>>,
    <<"<U+001D>", <<"\\", "x", "1", "d">>>>,
    <<"<U+001E>", <<"\\", "x", "1", "e">>>>,
    <<"<U+001F>", <<"\\", "x", "1", "f">>>>,
    <<"<U+007F>", <<"\\", "x", "7", "f">>>>,
    <<"<U+0080>", <<"\\", "x", "8", "0">>>>,
    <<"<U+0081>", <<"\\", "x", "8", "1">>>>,
    <<"<U+0082>", <<"\\", "x", "8", "2">>>>,
    <<"<U+0083>", <<"\\", "x", "8", "3">>>>,
    <<"<U+0084>", <<"\\", "x", "8", "4">>>>,
    <<"<U+0085>", <<"\\", "x", "8", "5">>>>,
    <<"<U+0086>", <<"\\", "x", "8", "6">>>>,
    <<"<U+0087>", <<"\\", "x", "8", "7">>>>,
    <<"<U+0088>", <<"\\", "x", "8", "8">>>>,
    <<"<U+0089>", <<"\\", "x", "8", "9">>>>,
    <<"<U+008A>", <<"\\", "x", "8", "a">>>>,
    <<"<U+008B>", <<"\\", "x", "8", "b">>>>,
    <<"<U+008C>", <<"\\", "x", "8", "c">>>>,
    <<"<U+008D>", <<"\\", "x", "8", "d">>>>,
    <<"<U+008E>", <<"\\", "x", "8", "e">>>>,
    <<"<U+008F>", <<"\\", "x", "8", "f">>>>,
    <<"<U+0090>", <<"\\", "x", "9", "0">>>>,
    <<"<U+0091>", <<"\\", "x", "9", "1">>>>,
    <<"<U+0092>", <<"\\", "x", "9", "2">>>>,
    <<"<U+0093>", <<"\\", "x", "9", "3">>>>,
    <<"<U+0094>", <<"\\", "x", "9", "4">>>>,
    <<"<U+0095>", <<"\\", "x", "9", "5">>>>,
    <<"<U+0096>", <<"\\", "x", "9", "6">>>>,
    <<"<U+0097>", <<"\\", "x", "9", "7">>>>,
    <<"<U+0098>", <<"\\", "x", "9", "8">>>>,
    <<"<U+0099>", <<"\\", "x", "9", "9">>>>,
    <<"<U+009A>", <<"\\", "x", "9", "a">>>>,
    <<"<U+009B>", <<"\\", "x", "9", "b">>>>,
    <<"<U+009C>", <<"\\", "x", "9", "c">>>>,
    <<"<U+009D>", <<"\\", "x", "9", "d">>>>,
    <<"<U+009E>", <<"\\", "x", "9", "e">>>>,
    <<"<U+009F>", <<"\\", "x", "9", "f">>>>,
    <<"<U+00A0>", <<"\\", "x", "a", "0">>>>,
    <<"<U+00AD>", <<"\\", "x", "a", "d">>>>,
    <<"<U+1680>", <<"\\", "u", "1", "6", "8", "0">>>>,
    <<"<U+2000>", <<"\\", "u", "2", "0", "0", "0">>>>,
    <<"<U+2001>", <<"\\", "u", "2", "0", "0", "1">>>>,
    <<"<U+2002>", <<"\\", "u", "2", "0", "0", "2">>>>,
    <<"<U+2003>", <<"\\", "u", "2", "0", "0", "3">>>>,
    <<"<U+2004>", <<"\\", "u", "2", "0", "0", "4">>>>,
    <<"<U+2005>", <<"\\", "u", "2", "0", "0", "5">>>>,
    <<"<U+2006>", <<"\\", "u", "2", "0", "0", "6">>>>,
    <<"<U+2007>", <<"\\", "u", "2", "0", "0", "7">>>>,
    <<"<U+2008>", <<"\\", "u", "2", "0", "0", "8">>>>,
    <<"<U+2009>", <<"\\", "u", "2", "0", "0", "9">>>>,
    <<"<U+200A>", <<"\\", "u", "2", "0", "0", "a">>>>,
    <<"<U+2028>", <<"\\", "u", "2", "0", "2", "8">>>>,
    <<"<U+2029>", <<"\\", "u", "2", "0", "2", "9">>>>,
    <<"<U+202F>", <<"\\", "u", "2", "0", "2", "f">>>>,
    <<"<U+205F>", <<"\\", "u", "2", "0", "5", "f">>>>,
    <<"<U+3000>", <<"\\", "u", "3", "0", "0", "0">>>> >>

Escaped == {HexEscapes[i][1] : i \in DOMAIN HexEscapes}

\* one character of a str inside quotes of kind q
ReprChar(c, q) ==
  IF c = "\\" THEN <<"\\", "\\">>
  ELSE IF c = q THEN <<"\\", q>>
  ELSE IF c = "\n" THEN <<"\\", "n">>
  ELSE IF c = "\r" THEN <<"\\", "r">>
  ELSE IF c = "\t" THEN <<"\\", "t">>
  ELSE IF c \in Escaped
       THEN HexEscapes[CHOOSE i \in DOMAIN HexEscapes : HexEscapes[i][1] = c][2]
  ELSE <<c>>

RECURSIVE ReprChars(_, _)
ReprChars(s, q) ==
  IF Len(s) = 0 THEN <<>>
  ELSE IF Len(s) = 1 THEN ReprChar(s[1], q)
  ELSE ReprChars(SubSeq(s, 1, Len(s) \div 2), q)
       \o ReprChars(SubSeq(s, (Len(s) \div 2) + 1, Len(s)), q)

\* the quote repr() puts around s
QuoteOf(s) ==
  IF (\E i \in 1..Len(s) : s[i] = "'") /\ ~(\E i \in 1..Len(s) : s[i] = "\"")
  THEN "\"" ELSE "'"

Quoted(s, q) == <<q>> \o ReprChars(s, q) \o <<q>>

\* repr(s) of a str
ReprStr(s) == Quoted(s, QuoteOf(s))

(***************************************************************************)
(* Numerals: arithmetic on the decimal digits of a natural number, which   *)
(* may be too large for an integer of the model                            *)
(***************************************************************************)
Zero == <<"0">>

AsciiVal(c) == (CHOOSE d \in 1..10 : DigitChars[d] = c) - 1

\* s without the zeros it starts with, and without those it ends with
DropLeading(s) ==
  IF \A i \in 1..Len(s) : s[i] = "0" THEN <<>>
  ELSE SubSeq(s, CHOOSE i \in 1..Len(s) : s[i] # "0" /\ \A j \in 1..(i - 1) : s[j] = "0",
              Len(s))

DropTrailing(s) ==
  IF \A i \in 1..Len(s) : s[i] = "0" THEN <<>>
  ELSE SubSeq(s, 1, CHOOSE i \in 1..Len(s) :
                      s[i] # "0" /\ \A j \in (i + 1)..Len(s) : s[j] = "0")

\* the numeral without leading zeros, "0" for zero
Numeral(ds) == IF Len(DropLeading(ds)) = 0 THEN Zero ELSE DropLeading(ds)

\* numerals are multiplied and divided by at most 2^27 in one pass, which
\* keeps every intermediate value below 2^31; a pass splits the numeral in
\* two and settles the carry (never negative) before it enters a part
MaxShift == 27

\* (carry * 10^(hi - lo + 1) + ds[lo..hi]) % m
RECURSIVE RangeRemainder(_, _, _, _, _)
RangeRemainder(ds, lo, hi, m, carry) ==
  IF carry < 0 \/ lo > hi THEN carry
  ELSE IF lo = hi THEN (10 * carry + AsciiVal(ds[lo])) % m
  ELSE RangeRemainder(ds, ((lo + hi) \div 2) + 1, hi, m,
                      RangeRemainder(ds, lo, (lo + hi) \div 2, m, carry))

\* the digits of (carry * 10^(hi - lo + 1) + ds[lo..hi]) \div m
RECURSIVE RangeQuotient(_, _, _, _, _)
RangeQuotient(ds, lo, hi, m, carry) ==
  IF carry < 0 \/ lo > hi THEN <<>>
  ELSE IF lo = hi THEN <<DigitChars[((10 * carry + AsciiVal(ds[lo])) \div m) + 1]>>
  ELSE RangeQuotient(ds, lo, (lo + hi) \div 2, m, carry)
       \o RangeQuotient(ds, ((lo + hi) \div 2) + 1, hi, m,
                        RangeRemainder(ds, lo, (lo + hi) \div 2, m, carry))

\* n % m and n \div m
Remainder(n, m) == RangeRemainder(n, 1, Len(n), m, 0)

Quotient(n, m) == Numeral(RangeQuotient(n, 1, Len(n), m, 0))

\* (m * ds[lo..hi] + carry) \div 10^(hi - lo + 1)
RECURSIVE RangeCarry(_, _, _, _, _)
RangeCarry(ds, lo, hi, m, carry) ==
  IF carry < 0 \/ lo > hi THEN carry
  ELSE IF lo = hi THEN (m * AsciiVal(ds[lo]) + carry) \div 10
  ELSE RangeCarry(ds, lo, (lo + hi) \div 2, m,
                  RangeCarry(ds, ((lo + hi) \div 2) + 1, hi, m, carry))

\* the last hi - lo + 1 digits of m * ds[lo..hi] + carry
RECURSIVE RangeProduct(_, _, _, _, _)
RangeProduct(ds, lo, hi, m, carry) ==
  IF carry < 0 \/ lo > hi THEN <<>>
  ELSE IF lo = hi THEN <<DigitChars[((m * AsciiVal(ds[lo]) + carry) % 10) + 1]>>
  ELSE RangeProduct(ds, lo, (lo + hi) \div 2, m,
                    RangeCarry(ds, ((lo + hi) \div 2) + 1, hi, m, carry))
       \o RangeProduct(ds, ((lo + hi) \div 2) + 1, hi, m, carry)

\* m * n
Product(n, m) ==
  Numeral(Digits(RangeCarry(n, 1, Len(n), m, 0)) \o RangeProduct(n, 1, Len(n), m, 0))

\* n * 2^p
RECURSIVE Shifted(_, _)
Shifted(n, p) ==
  IF n = Zero THEN Zero
  ELSE IF p > MaxShift THEN Shifted(Product(n, 2^MaxShift), p - MaxShift)
  ELSE Product(n, 2^p)

\* n * 5^p, eleven factors in one pass
RECURSIVE Quintupled(_, _)
Quintupled(n, p) ==
  IF n = Zero THEN Zero
  ELSE IF p > 11 THEN Quintupled(Product(n, 5^11), p - 11)
  ELSE Product(n, 5^p)

\* n + 1
Successor(n) ==
  IF \A i \in 1..Len(n) : n[i] = "9" THEN <<"1">> \o Zeros(Len(n))
  ELSE SubSeq(n, 1, Greatest({i \in 1..Len(n) : n[i] # "9"}) - 1)
       \o <<DigitChars[AsciiVal(n[Greatest({i \in 1..Len(n) : n[i] # "9"})]) + 2]>>
       \o Zeros(Len(n) - Greatest({i \in 1..Len(n) : n[i] # "9"}))

\* a < b
Less(a, b) ==
  \/ Len(a) < Len(b)
  \/ /\ Len(a) = Len(b)
     /\ \E i \in 1..Len(a) :
          AsciiVal(a[i]) < AsciiVal(b[i]) /\ SubSeq(a, 1, i - 1) = SubSeq(b, 1, i - 1)

\* n \div 10^j
Shortened(n, j) == IF Len(n) > j THEN SubSeq(n, 1, Len(n) - j) ELSE Zero

\* n % 10^j, as j digits
LastDigits(n, j) ==
  IF Len(n) >= j THEN SubSeq(n, Len(n) - j + 1, Len(n)) ELSE Zeros(j - Len(n)) \o n

\* the digits rest are more than half a unit of the digit before them
OverHalf(rest) ==
  /\ Len(rest) > 0
  /\ \/ AsciiVal(rest[1]) > 5
     \/ rest[1] = "5" /\ \E i \in 2..Len(rest) : rest[i] # "0"

\* the digits rest are exactly half a unit of the digit before them
ExactHalf(rest) ==
  Len(rest) > 0 /\ rest[1] = "5" /\ \A i \in 2..Len(rest) : rest[i] = "0"

\* n with the digits rest behind it, rounded to an integer, a tie going to
\* the even one
RoundHalfEven(n, rest) ==
  IF OverHalf(rest) \/ (ExactHalf(rest) /\ Remainder(n, 2) = 1) THEN Successor(n) ELSE n

(***************************************************************************)
(* Floats                                                                  *)
(***************************************************************************)
\* the greatest k in lo..hi for which 2^k divides n, 2^lo dividing it
RECURSIVE TwosFrom(_, _, _)
TwosFrom(n, lo, hi) ==
  IF lo = hi THEN lo
  ELSE IF Remainder(n, 2^((lo + hi + 1) \div 2)) = 0
    THEN TwosFrom(n, (lo + hi + 1) \div 2, hi)
  ELSE TwosFrom(n, lo, ((lo + hi + 1) \div 2) - 1)

\* the greatest k up to MaxShift for which 2^k divides n
TwosIn(n) == TwosFrom(n, 0, MaxShift)

\* the float n * 2^q, n having k factors two of which the float has none
RECURSIVE Odd(_, _, _, _)
Odd(neg, n, q, k) ==
  IF k = 0 THEN [t |-> "float", k |-> "fin", neg |-> neg, m |-> n, q |-> q]
  ELSE Odd(neg, Quotient(n, 2^k), q + k, TwosIn(Quotient(n, 2^k)))

\* the float n * 2^q, negative if neg
Fin(neg, n, q) ==
  IF n = Zero THEN [t |-> "float", k |-> "fin", neg |-> neg, m |-> Zero, q |-> 0]
  ELSE Odd(neg, n, q, TwosIn(n))

Inf(neg) == [t |-> "float", k |-> "inf", neg |-> neg, m |-> Zero, q |-> 0]
NaN == [t |-> "float", k |-> "nan", neg |-> FALSE, m |-> Zero, q |-> 0]

\* a float holds 53 bits
TwoTo26 == <<"6","7","1","0","8","8","6","4">>
TwoTo52 == <<"4","5","0","3","5","9","9","6","2","7","3","7","0","4","9","6">>
TwoTo53 == <<"9","0","0","7","1","9","9","2","5","4","7","4","0","9","9","2">>

\* the exponent of the greatest floats and, negated, of the least
MaxExponent == 971
MinExponent == 1074

\* the bits of n that do not fit a float: the least k with n < 2^(53 + k)
RECURSIVE ExcessFrom(_, _, _)
ExcessFrom(n, lo, hi) ==
  IF lo = hi THEN lo
  ELSE IF Less(n, Product(TwoTo53, 2^((lo + hi) \div 2)))
    THEN ExcessFrom(n, lo, (lo + hi) \div 2)
  ELSE ExcessFrom(n, ((lo + hi) \div 2) + 1, hi)

ExcessBits(n) == ExcessFrom(n, 0, MaxShift)

\* n without its last k bits, rounded to nearest with ties to even: a set
\* bit was dropped before these (sticky) or not
Nearest(n, k, sticky) ==
  IF k = 0 THEN n
  ELSE IF \/ Remainder(n, 2^k) > 2^(k - 1)
          \/ /\ Remainder(n, 2^k) = 2^(k - 1)
             /\ (sticky \/ Remainder(Quotient(n, 2^k), 2) = 1)
    THEN Successor(Quotient(n, 2^k))
  ELSE Quotient(n, 2^k)

\* m * 2^p, m of 53 bits: infinite when beyond the greatest float
Finite(neg, m, p) ==
  IF p > MaxExponent \/ (p = MaxExponent /\ m = TwoTo53) THEN Inf(neg)
  ELSE Fin(neg, m, p)

\* the float nearest to n * 2^p, the last k bits of n not fitting
Fitted(neg, n, p, sticky, k) == Finite(neg, Nearest(n, k, sticky), p + k)

\* the float nearest to n * 2^p (sticky: something was cut off n), for n
\* an integer that is below 2^53 only if nothing was cut off
RECURSIVE FloatOf(_, _, _, _)
FloatOf(neg, n, p, sticky) ==
  IF Less(n, Product(TwoTo53, 2^MaxShift))
    THEN Fitted(neg, n, p, sticky, ExcessBits(n))
  ELSE FloatOf(neg, Quotient(n, 2^MaxShift), p + MaxShift,
               sticky \/ Remainder(n, 2^MaxShift) # 0)

\* the doublings, room at most, that bring n \div 10^j to 2^52 or more
RECURSIVE ExtraFrom(_, _, _, _)
ExtraFrom(n, j, lo, hi) ==
  IF lo = hi THEN lo
  ELSE IF Less(Shortened(Product(n, 2^((lo + hi) \div 2)), j), TwoTo52)
    THEN ExtraFrom(n, j, ((lo + hi) \div 2) + 1, hi)
  ELSE ExtraFrom(n, j, lo, (lo + hi) \div 2)

ExtraBits(n, j, room) == ExtraFrom(n, j, 0, room)

\* the float nearest to n / 10^j, s bits below the point
Fraction(neg, n, j, s) ==
  Fin(neg, RoundHalfEven(Shortened(n, j), LastDigits(n, j)), 0 - s)

\* the doublings left s bits below the point, MaxShift at most
Room(s) == IF MinExponent - s < MaxShift THEN MinExponent - s ELSE MaxShift

\* the float nearest to n / (2^s * 10^j), n being doubled k times more
Doubled(neg, n, j, s, k) == Fraction(neg, Product(n, 2^k), j, s + k)

\* the float nearest to n / (2^s * 10^j), a number below 2^53: n is doubled
\* until 53 bits stand before the j digits or the least exponent is reached
RECURSIVE Scaled(_, _, _, _)
Scaled(neg, n, j, s) ==
  IF s + MaxShift <= MinExponent /\ Less(Shortened(n, j), TwoTo26)
    THEN Scaled(neg, Product(n, 2^MaxShift), j, s + MaxShift)
  ELSE Doubled(neg, n, j, s, ExtraBits(n, j, Room(s)))

\* the float nearest to sig * 10^e, sig a numeral that neither starts nor
\* ends with a zero
Significant(neg, sig, e) ==
  IF e + Len(sig) > 310 THEN Inf(neg)
  ELSE IF e + Len(sig) < 0 - 324 THEN Fin(neg, Zero, 0)
  ELSE IF e >= 0 THEN FloatOf(neg, sig \o Zeros(e), 0, FALSE)
  ELSE IF ~Less(Shortened(sig, 0 - e), TwoTo53)
    THEN FloatOf(neg, Shortened(sig, 0 - e), 0, TRUE)
  ELSE Scaled(neg, sig, 0 - e, 0)

\* the float written with the digits ds, times 10^e
Decimal(neg, ds, e) ==
  IF Len(DropLeading(ds)) = 0 THEN Fin(neg, Zero, 0)
  ELSE Significant(neg, DropTrailing(DropLeading(ds)),
                   e + (Len(DropLeading(ds)) - Len(DropTrailing(DropLeading(ds)))))


(***************************************************************************)
(* float(s)                                                                *)
(***************************************************************************)
\* the white space float() removes around the number
FloatSpaces == AsciiSpaces \cup UnicodeSpaces

\* the digits of any script become ASCII digits before the number is read
AsciiText(s) ==
  [i \in 1..Len(s) |-> IF IsDigit(s[i]) THEN DigitChars[DigitVal(s[i]) + 1] ELSE s[i]]

\* an underscore stands between two digits
UnderscoresOk(t) ==
  \A i \in 1..Len(t) :
    t[i] = "_" => (i > 1 /\ i < Len(t) /\ t[i - 1] \in AsciiDigits
                   /\ t[i + 1] \in AsciiDigits)

\* position of the first character of t that is in S, 0 if there is none
FirstIn(t, S) ==
  IF \E i \in 1..Len(t) : t[i] \in S
  THEN CHOOSE i \in 1..Len(t) : t[i] \in S /\ \A j \in 1..(i - 1) : t[j] \notin S
  ELSE 0

\* t before position at, all of t when at is 0
Before(t, at) == IF at = 0 THEN t ELSE SubSeq(t, 1, at - 1)

\* t behind position at, nothing when at is 0
Behind(t, at) == IF at = 0 THEN <<>> ELSE SubSeq(t, at + 1, Len(t))

\* what precedes the first "." of r, r itself when it has none
IntPart(r) == Before(r, FirstIn(r, {"."}))

\* what follows the first "." of r
FracPart(r) == Behind(r, FirstIn(r, {"."}))

\* t without the sign it starts with
Unsigned(t) == IF Len(t) > 0 /\ t[1] \in {"-", "+"} THEN Tail(t) ELSE t

IsNegative(t) == Len(t) > 0 /\ t[1] = "-"

\* the greatest exponent float() reads; one of more than nine digits
\* (leading zeros apart) is read as this one
MAX_ABS_EXP == 1100000000

\* the value of the digits ds of an exponent, ds without leading zeros
Magnitude(ds) == IF Len(ds) > 9 THEN MAX_ABS_EXP ELSE DigitsValue(ds)

\* the exponent written x (a sign and digits), 0 when there is none
ExponentValue(x) ==
  IF IsNegative(x) THEN 0 - Magnitude(DropLeading(Unsigned(x)))
  ELSE Magnitude(DropLeading(Unsigned(x)))

Parsed(f) == [ok |-> TRUE, value |-> f]
NotParsed == [ok |-> FALSE]

\* digits, an optional point, digits; then an optional exponent: int and
\* frac are the parts of the mantissa, x what follows the e, digits its
\* part after the sign
ParseNumber(int, frac, x, digits, exponent, neg) ==
  IF /\ \A i \in 1..Len(int) : int[i] \in AsciiDigits
     /\ \A i \in 1..Len(frac) : frac[i] \in AsciiDigits
     /\ Len(int) + Len(frac) > 0
     /\ exponent => (Len(digits) > 0 /\ \A i \in 1..Len(digits) : digits[i] \in AsciiDigits)
  THEN Parsed(Decimal(neg, int \o frac, ExponentValue(x) - Len(frac)))
  ELSE NotParsed

\* inf, infinity or nan in any case, or a number
ParseUnsigned(r, neg) ==
  IF Lower(r) \in {<<"i","n","f">>, <<"i","n","f","i","n","i","t","y">>}
  THEN Parsed(Inf(neg))
  ELSE IF Lower(r) = <<"n","a","n">> THEN Parsed(NaN)
  ELSE ParseNumber(IntPart(Before(r, FirstIn(r, {"e", "E"}))),
                   FracPart(Before(r, FirstIn(r, {"e", "E"}))),
                   Behind(r, FirstIn(r, {"e", "E"})),
                   Unsigned(Behind(r, FirstIn(r, {"e", "E"}))),
                   FirstIn(r, {"e", "E"}) > 0, neg)

ParseSigned(t) == ParseUnsigned(Unsigned(t), IsNegative(t))

ParseStripped(t) ==
  IF UnderscoresOk(t) THEN ParseSigned(SelectSeq(t, LAMBDA c : c # "_")) ELSE NotParsed

\* the float a string denotes for float(), or ok = FALSE when float()
\* rejects it
ParseAmount(s) ==
  ParseStripped(Between(AsciiText(s), {i \in 1..Len(s) : s[i] \notin FloatSpaces}))

\* float(s) of a str, parsed being ParseAmount(s)
FloatOfStr(s, parsed) ==
  IF parsed.ok THEN Return(parsed.value)
  ELSE Raise(<<"could not convert string to float: ">> \o ReprStr(s))

\* float(v)
PyFloat(v) ==
  CASE v.t = "num" ->
         IF Decimal(v.neg, v.ds, 0).k = "inf"
         THEN Raise(<<"int too large to convert to float">>)
         ELSE Return(Decimal(v.neg, v.ds, 0))
    [] v.t = "bool" -> Return(Decimal(FALSE, IF v.b THEN <<"1">> ELSE <<"0">>, 0))
    [] v.t = "float" -> Return(v)
    [] v.t = "str" -> FloatOfStr(v.s, ParseAmount(v.s))
    [] OTHER ->
         Raise(<<"float() argument must be a string or a real number, not '",
                 TypeName(v), "'">>)

(***************************************************************************)
(* repr() and str()                                                        *)
(***************************************************************************)
\* the digits of a finite float f: the numeral ExactDigits(f), times ten to
\* the power ExactExponent(f), is its magnitude
ExactDigits(f) == IF f.q >= 0 THEN Shifted(f.m, f.q) ELSE Quintupled(f.m, 0 - f.q)
ExactExponent(f) == IF f.q >= 0 THEN 0 ELSE f.q

\* the exponent of repr(float): a sign and at least two digits
ExponentText(x) ==
  (IF x < 0 THEN <<"e", "-">> ELSE <<"e", "+">>)
  \o (IF x < 10 /\ x > 0 - 10 THEN <<"0">> ELSE <<>>)
  \o Digits(IF x < 0 THEN 0 - x ELSE x)

\* repr of the positive number ds * 10^e, ds its digits, x the power of ten
\* of its first digit
ReprDigits(ds, e, x) ==
  IF x < 0 - 4 \/ x >= 16
  THEN <<ds[1]>> \o (IF Len(ds) > 1 THEN <<".">> \o Tail(ds) ELSE <<>>)
       \o ExponentText(x)
  ELSE IF e >= 0 THEN ds \o Zeros(e) \o <<".", "0">>
  ELSE IF x >= 0 THEN SubSeq(ds, 1, x + 1) \o <<".">> \o SubSeq(ds, x + 2, Len(ds))
  ELSE <<"0", ".">> \o Zeros((0 - x) - 1) \o ds

\* repr of the positive number ds * 10^e, ds any numeral but zero
ReprDecimal(ds, e) ==
  ReprDigits(DropTrailing(ds), e + (Len(ds) - Len(DropTrailing(ds))), e + Len(ds) - 1)

\* the decimal ds * 10^e is read back as f
ReadsAs(f, ds, e) == Decimal(f.neg, ds, e) = f

\* the nearer to digits of its first n digits (down) and their successor
\* is down
NearerDown(digits, n) ==
  ~OverHalf(SubSeq(digits, n + 1, Len(digits)))
  /\ (ExactHalf(SubSeq(digits, n + 1, Len(digits)))
        => Remainder(SubSeq(digits, 1, n), 2) = 0)

\* the shortest decimal that is read back as f, the nearest to f of that
\* length: tried with n digits, then with more; digits * 10^e is f exactly
RECURSIVE Shortest(_, _, _, _)
Shortest(f, digits, e, n) ==
  IF n >= Len(digits) THEN ReprDecimal(digits, e)
  ELSE IF /\ NearerDown(digits, n)
          /\ ReadsAs(f, SubSeq(digits, 1, n), e + Len(digits) - n)
    THEN ReprDecimal(SubSeq(digits, 1, n), e + Len(digits) - n)
  ELSE IF ReadsAs(f, Successor(SubSeq(digits, 1, n)), e + Len(digits) - n)
    THEN ReprDecimal(Successor(SubSeq(digits, 1, n)), e + Len(digits) - n)
  ELSE IF ReadsAs(f, SubSeq(digits, 1, n), e + Len(digits) - n)
    THEN ReprDecimal(SubSeq(digits, 1, n), e + Len(digits) - n)
  ELSE Shortest(f, digits, e, n + 1)

ReprMagnitude(f) ==
  IF f.k = "inf" THEN <<"i", "n", "f">>
  ELSE IF f.m = Zero THEN <<"0", ".", "0">>
  ELSE Shortest(f, ExactDigits(f), ExactExponent(f), 1)

\* repr(f) of a float
ReprFloat(f) ==
  IF f.k = "nan" THEN <<"n", "a", "n">>
  ELSE (IF f.neg THEN <<"-">> ELSE <<>>) \o ReprMagnitude(f)

\* repr(v)
RECURSIVE PyRepr(_)
RECURSIVE ReprElements(_)
RECURSIVE ReprItems(_)

\* the elements of a list, separated
ReprElements(l) ==
  IF Len(l) = 0 THEN <<>>
  ELSE PyRepr(l[1]) \o (IF Len(l) > 1 THEN <<",", " ">> ELSE <<>>) \o ReprElements(Tail(l))

\* the items of a dict, separated
ReprItems(items) ==
  IF Len(items) = 0 THEN <<>>
  ELSE ReprStr(items[1][1]) \o <<":", " ">> \o PyRepr(items[1][2])
       \o (IF Len(items) > 1 THEN <<",", " ">> ELSE <<>>) \o ReprItems(Tail(items))

PyRepr(v) ==
  CASE v.t = "null" -> <<"N", "o", "n", "e">>
    [] v.t = "bool" -> IF v.b THEN <<"T", "r", "u", "e">> ELSE <<"F", "a", "l", "s", "e">>
    [] v.t = "num" -> IF v.neg THEN <<"-">> \o v.ds ELSE v.ds
    [] v.t = "float" -> ReprFloat(v)
    [] v.t = "str" -> ReprStr(v.s)
    [] v.t = "list" -> <<"[">> \o ReprElements(v.l) \o <<"]">>
    [] v.t = "dict" -> <<"{">> \o ReprItems(v.items) \o <<"}">>

\* str(v) of a value placed in an f-string
PyStr(v) == IF v.t = "str" THEN v.s ELSE PyRepr(v)

(***************************************************************************)
(* format(x, ".2f")                                                        *)
(***************************************************************************)
\* the numeral cents with a point before its last two digits
TwoDecimals(cents) ==
  SubSeq(Zeros(3 - Len(cents)) \o cents, 1, Len(Zeros(3 - Len(cents)) \o cents) - 2)
  \o <<".">>
  \o SubSeq(Zeros(3 - Len(cents)) \o cents, Len(Zeros(3 - Len(cents)) \o cents) - 1,
            Len(Zeros(3 - Len(cents)) \o cents))

\* format(x, ".2f") of the number digits * 10^e: the amount of cents
\* nearest to it, a tie going to the even amount
FormatDecimal(digits, e) ==
  IF e >= 0 - 2 THEN TwoDecimals(digits \o Zeros(e + 2))
  ELSE TwoDecimals(RoundHalfEven(Shortened(digits, (0 - e) - 2),
                                 LastDigits(digits, (0 - e) - 2)))

\* format(x, ".2f") of a finite float
FormatFinite(f) == FormatDecimal(ExactDigits(f), ExactExponent(f))

\* format(f, ".2f") of a float
FormatAmount(f) ==
  IF f.k = "nan" THEN <<"n", "a", "n">>
  ELSE (IF f.neg THEN <<"-">> ELSE <<>>)
       \o (IF f.k = "inf" THEN <<"i", "n", "f">> ELSE FormatFinite(f))

(***************************************************************************)
(* woolworths.py: one product object to one record                         *)
(***************************************************************************)
STORE_NAME == "woolworths"

\* PackageSizeUnit with the g test placed before the kg test
PackageSizeUnitGFirst(ps_lower) ==
  IF Contains(<<"g">>, ps_lower) THEN "g"
  ELSE IF Contains(<<"k","g">>, ps_lower) THEN "kg"
  ELSE IF Contains(<<"l">>, ps_lower) /\ ~Contains(<<"m","l">>, ps_lower) THEN "L"
  ELSE IF Contains(<<"m","l">>, ps_lower) THEN "ml"
  ELSE IF Contains(<<"e","a","c","h">>, ps_lower) THEN "each"
  ELSE IF Contains(<<"p","a","c","k">>, ps_lower) \/ Contains(<<"p","k">>, ps_lower)
       THEN "pack"
  ELSE ""

\* the elif chain applied to the lower-cased PackageSize
PackageSizeUnit(ps_lower) ==
  IF Contains(<<"k","g">>, ps_lower) THEN "kg"
  ELSE IF Contains(<<"g">>, ps_lower) /\ ~Contains(<<"k","g">>, ps_lower) THEN "g"
  ELSE IF Contains(<<"l">>, ps_lower) /\ ~Contains(<<"m","l">>, ps_lower) THEN "L"
  ELSE IF Contains(<<"m","l">>, ps_lower) THEN "ml"
  ELSE IF Contains(<<"e","a","c","h">>, ps_lower) THEN "each"
  ELSE IF Contains(<<"p","a","c","k">>, ps_lower) \/ Contains(<<"p","k">>, ps_lower)
       THEN "pack"
  ELSE ""

\* the part of the lower-cased CupString the unit is read from
CupStringTarget(cs_lower) ==
  IF PartCount(cs_lower, "/") > 1 THEN Strip(LastPart(cs_lower, "/")) ELSE cs_lower

\* the elif chain applied to that part
CupStringUnit(target_str_for_unit) ==
  IF Contains(<<"k","g">>, target_str_for_unit) THEN "kg"
  ELSE IF Contains(<<"g">>, target_str_for_unit)
          /\ ~Contains(<<"k","g">>, target_str_for_unit) THEN "g"
  ELSE IF Contains(<<"l">>, target_str_for_unit)
          /\ ~Contains(<<"m","l">>, target_str_for_unit) THEN "L"
  ELSE IF Contains(<<"m","l">>, target_str_for_unit) THEN "ml"
  ELSE IF Contains(<<"e","a","c","h">>, target_str_for_unit)
          \/ Contains(<<"e","a">>, target_str_for_unit) THEN "each"
  ELSE IF Contains(<<"p","a","c","k">>, target_str_for_unit)
          \/ Contains(<<"p","k">>, target_str_for_unit) THEN "pack"
  ELSE ""

\* the elif chain applied to the lower-cased CupMeasure
CupMeasureUnit(cm_lower) ==
  IF Contains(<<"k","g">>, cm_lower) THEN "kg"
  ELSE IF Contains(<<"g">>, cm_lower) /\ ~Contains(<<"k","g">>, cm_lower) THEN "g"
  ELSE IF Contains(<<"l">>, cm_lower) /\ ~Contains(<<"m","l">>, cm_lower) THEN "L"
  ELSE IF Contains(<<"m","l">>, cm_lower) THEN "ml"
  ELSE IF Contains(<<"e","a","c","h">>, cm_lower) THEN "each"
  ELSE IF Contains(<<"p","a","c","k">>, cm_lower) \/ Contains(<<"p","k">>, cm_lower)
       THEN "pack"
  ELSE ""

\* the exact match on the lower-cased Unit field
ApiUnit(auf_lower) == IF <<"e","a","c","h">> = auf_lower THEN "each" ELSE ""

\* "if <field> and isinstance(<field>, str)"
UsableText(field) == Truthy(field) /\ IsStr(field)

\* Priority 1: PackageSize
Priority1(package_size_str) ==
  IF UsableText(package_size_str)
  THEN PackageSizeUnit(Lower(package_size_str.s)) ELSE ""

\* Priority 2: CupString, unit being what the priority before left
Priority2(unit, cup_string_str) ==
  IF unit = "" /\ UsableText(cup_string_str)
  THEN CupStringUnit(CupStringTarget(Lower(cup_string_str.s))) ELSE unit

\* Priority 3: CupMeasure
Priority3(unit, cup_measure_str) ==
  IF unit = "" /\ UsableText(cup_measure_str)
  THEN CupMeasureUnit(Lower(cup_measure_str.s)) ELSE unit

\* Priority 4: the Unit field
Priority4(unit, api_unit_field) ==
  IF unit = "" /\ UsableText(api_unit_field)
  THEN ApiUnit(Lower(api_unit_field.s)) ELSE unit

\* unit of a product dict: the four priorities in turn
InferUnit(product) ==
  Priority4(
    Priority3(
      Priority2(
        Priority1(Get(product, Key.PackageSize, Str(<<>>))),
        Get(product, Key.CupString, Str(<<>>))),
      Get(product, Key.CupMeasure, Str(<<>>))),
    Get(product, Key.Unit, Str(<<>>)))

\* name of a product dict
ProductName(product) ==
  Get(product, Key.DisplayName, Get(product, Key.Name, Str(<<>>)))

\* "if price is None: price = <next>"
IfNone(price, next) == IF price = Null THEN next ELSE price

\* price of a product dict before the cast: Price, InstorePrice, WasPrice
ProductPrice(product) ==
  IfNone(IfNone(Get(product, Key.Price, Null), Get(product, Key.InstorePrice, Null)),
         Get(product, Key.WasPrice, Null))

\* "float(price) if price is not None else None"
CastPrice(price) == IF price = Null THEN Return(Null) ELSE PyFloat(price)

\* the dict appended to products, cast being the outcome of the cast
MakeRecord(product, cast) ==
  IF cast.raised THEN cast
  ELSE Return([name |-> ProductName(product),
               price |-> cast.value,
               unit |-> InferUnit(product),
               store |-> STORE_NAME])

\* the record appended for one element of actual_product_list
NormalizeProduct(product) ==
  IF ~IsDict(product)
  THEN Raise(<<"'", TypeName(product), "' object has no attribute 'get'">>)
  ELSE MakeRecord(product, CastPrice(ProductPrice(product)))

(***************************************************************************)
(* woolworths.py: search_products                                          *)
(***************************************************************************)
\* CategoryProducts without the branch for a category that is itself a product
CategoryProductsNoSelf(product_category) ==
  IF ~IsDict(product_category)
  THEN Raise(<<"'", TypeName(product_category), "' object has no attribute 'get'">>)
  ELSE IF IsList(Get(product_category, Key.Products, Null))
       THEN Return(Get(product_category, Key.Products, Null).l)
  ELSE Return(<<>>)

\* product_category to the list its products are read from; a category
\* that is skipped contributes the empty list
CategoryProducts(product_category) ==
  IF ~IsDict(product_category)
  THEN Raise(<<"'", TypeName(product_category), "' object has no attribute 'get'">>)
  ELSE IF IsList(Get(product_category, Key.Products, Null))
       THEN Return(Get(product_category, Key.Products, Null).l)
  ELSE IF HasKey(product_category, Key.Stockcode) /\ ~HasKey(product_category, Key.Products)
       THEN Return(<<product_category>>)
  ELSE Return(<<>>)

\* AppendProducts keeping the records made before a product raised
RECURSIVE AppendProductsPartial(_, _)
AppendRecordPartial(rest, acc, r) ==
  IF r.raised THEN Return(acc) ELSE AppendProductsPartial(rest, Append(acc, r.value))

AppendProductsPartial(actual_product_list, acc) ==
  IF Len(actual_product_list) = 0 THEN Return(acc)
  ELSE AppendRecordPartial(Tail(actual_product_list), acc,
                           NormalizeProduct(Head(actual_product_list)))

\* products.append(...) for the outcome r of one product, then the rest
RECURSIVE AppendProducts(_, _)
AppendRecord(rest, acc, r) ==
  IF r.raised THEN r ELSE AppendProducts(rest, Append(acc, r.value))

\* the inner loop: append the record of every product, stop at the first raise
AppendProducts(actual_product_list, acc) ==
  IF Len(actual_product_list) = 0 THEN Return(acc)
  ELSE AppendRecord(Tail(actual_product_list), acc,
                    NormalizeProduct(Head(actual_product_list)))

\* the inner loop over the list c of one category, then the other categories
RECURSIVE WalkCategories(_, _)
WalkRest(rest, r) == IF r.raised THEN r ELSE WalkCategories(rest, r.value)

WalkCategory(rest, acc, c) ==
  IF c.raised THEN c ELSE WalkRest(rest, AppendProducts(c.value, acc))

\* the outer loop over the categories
WalkCategories(categories, acc) ==
  IF Len(categories) = 0 THEN Return(acc)
  ELSE WalkCategory(Tail(categories), acc, CategoryProducts(Head(categories)))

\* the sequence a for statement runs over
Iterate(v) ==
  CASE v.t = "list" -> Return(v.l)
    [] v.t = "str" -> Return([i \in 1..Len(v.s) |-> Str(<<v.s[i]>>)])
    [] v.t = "dict" -> Return([i \in 1..Len(v.items) |-> Str(v.items[i][1])])
    [] OTHER -> Raise(<<"'", TypeName(v), "' object is not iterable">>)

WalkIterated(it) == IF it.raised THEN it ELSE WalkCategories(it.value, <<>>)

\* the records of a decoded body
ExtractProducts(response_data) ==
  CASE response_data.t = "dict" ->
         IF /\ HasKey(response_data, Key.Products)
            /\ Truthy(Get(response_data, Key.Products, Null))
         THEN WalkIterated(Iterate(Get(response_data, Key.Products, List(<<>>))))
         ELSE Return(<<>>)
    [] response_data.t = "str" ->
         IF Contains(Key.Products, response_data.s)
         THEN Raise(<<"string indices must be integers, not 'str'">>)
         ELSE Return(<<>>)
    [] response_data.t = "list" ->
         IF \E i \in 1..Len(response_data.l) : response_data.l[i] = Str(Key.Products)
         THEN Raise(<<"list indices must be integers or slices, not str">>)
         ELSE Return(<<>>)
    [] OTHER ->
         Raise(<<"argument of type '", TypeName(response_data), "' is not iterable">>)

\* ErrorStatus dropping the body of the response
ErrorStatusNoBody(status_code, text) ==
  [status |-> "error",
   message |-> <<"API request failed with status code ">> \o Digits(status_code),
   response_text |-> <<>>]

\* the outcome of a response whose status is not 200
ErrorStatus(status_code, text) ==
  [status |-> "error",
   message |-> <<"API request failed with status code ">> \o Digits(status_code),
   response_text |-> text]

\* the outcome of an exception
ErrorException(message) == [status |-> "error", message |-> message]

\* the outcome of a body that was walked to its end
Success(q, recs) ==
  [status |-> "success", query |-> q, products |-> recs, product_count |-> Len(recs)]

\* the outcome of the walk r
WalkOutcome(q, r) == IF r.raised THEN ErrorException(r.message) ELSE Success(q, r.value)

\* search_products(query), resp being what requests.get does for the URL
search_products(q, resp) ==
  IF resp.kind = "raise" THEN ErrorException(resp.message)
  ELSE IF resp.status_code # 200 THEN ErrorStatus(resp.status_code, resp.text)
  ELSE IF resp.json.raised THEN ErrorException(resp.json.message)
  ELSE WalkOutcome(q, ExtractProducts(resp.json.value))

(***************************************************************************)
(* main.py: the part of the tools after the search                         *)
(***************************************************************************)
Min(a, b) == IF a < b THEN a ELSE b

\* seq[:k]
SliceTo(seq, k) ==
  IF k >= 0 THEN SubSeq(seq, 1, Min(k, Len(seq)))
  ELSE IF Len(seq) + k > 0 THEN SubSeq(seq, 1, Len(seq) + k)
  ELSE <<>>

\* products[: min(limit, len(products))]
LimitProducts(recs, lim) == SliceTo(recs, Min(lim, Len(recs)))

\* outcome.get(key, default)
OutcomeGet(o, key, default) == IF key \in DOMAIN o THEN o[key] ELSE default

\* the four labelled lines of one record
FormatProduct(p) ==
  <<"Name: ">> \o PyStr(p.name)
  \o <<"\nPrice: ">>
  \o (IF p.price # Null THEN <<"$">> \o FormatAmount(p.price) ELSE <<"N/A">>)
  \o <<"\nUnit: ", IF p.unit # "" THEN p.unit ELSE "N/A", "\nStore: ", p.store>>

\* "\n---\n".join(formatted_products)
RECURSIVE JoinProducts(_)
JoinProducts(recs) ==
  IF Len(recs) = 1 THEN FormatProduct(recs[1])
  ELSE FormatProduct(recs[1]) \o <<"\n---\n">> \o JoinProducts(Tail(recs))

ErrorText(store, o) ==
  <<"Error fetching ", store, " products: ">>
  \o OutcomeGet(o, "message", <<"Unknown error">>)
  \o <<"\nResponse: ">> \o OutcomeGet(o, "response_text", <<>>)

NoProductsText(store, q) == <<"No products found at ", store, " for '">> \o q \o <<"'.">>

\* the text for the limited list ps
ListingText(store, q, ps) ==
  IF Len(ps) = 0 THEN NoProductsText(store, q) ELSE JoinProducts(ps)

\* get_woolworths_products from the returned outcome on
WoolworthsText(q, lim, o) ==
  IF OutcomeGet(o, "status", "") = "error" THEN ErrorText("Woolworths", o)
  ELSE ListingText("Woolworths", q, LimitProducts(OutcomeGet(o, "products", <<>>), lim))

(***************************************************************************)
(* One invocation of a tool.  pc is the position of the coroutine:         *)
(* "called" (the search runs on a worker thread), "searched" (the outcome  *)
(* is back), "extracting" (Coles only), "done" (the text is returned).     *)
(***************************************************************************)
NoOutcome == [status |-> "none"]

Http(code, text, json) ==
  [kind |-> "http", status_code |-> code, text |-> text, json |-> json]

\* the thread running search_products returns
WoolworthsSearch ==
  /\ tool = "woolworths" /\ pc = "called"
  /\ search_results' = search_products(query, response)
  /\ pc' = "searched"
  /\ UNCHANGED <<tool, query, limit, response, products, result, inv, queue>>

\* get_woolworths_products from the await to its return
WoolworthsReturn ==
  /\ tool = "woolworths" /\ pc = "searched"
  /\ products' = IF search_results.status = "error" THEN <<>>
                 ELSE LimitProducts(search_results.products, limit)
  /\ result' = WoolworthsText(query, limit, search_results)
  /\ pc' = "done"
  /\ UNCHANGED <<tool, query, limit, response, search_results, inv, queue>>

NextWoolworths == WoolworthsSearch \/ WoolworthsReturn

(***************************************************************************)
(* Inputs of the unit inference: a 200 response holding one category with  *)
(* one product whose four unit fields vary.                                *)
(***************************************************************************)
MaxFrags == 2

Frags ==
  { <<"1">>, <<"k","g">>, <<"g">>, <<"l">>, <<"m","l">>, <<"e","a","c","h">>,
    <<"e","a">>, <<"p","a","c","k">>, <<"p","k">>, <<"/">>, <<" ">>, <<"K">>,
    <<"L">>, <<"x">> }

RECURSIVE FragStrings(_)
FragStrings(n) ==
  IF n = 0 THEN {<<>>}
  ELSE FragStrings(n - 1) \cup {s \o f : s \in FragStrings(n - 1), f \in Frags}

ExampleTexts ==
  { <<"1","k","g">>, <<"5","0","0","g">>, <<"2","L">>, <<"2","5","0","m","l">>,
    <<"$","4",".","0","0","/","1","k","g">>, <<"$","2","/","e","a">>,
    <<"E","a","c","h">>, <<"6"," ","P","a","c","k">>,
    <<"$","1",".","2","0"," ","/"," ","1","0","0","G">>,
    <<"1","<U+212A>","g">>, <<"$","2","/","\r","e","a","<U+00A0>">>,
    <<"<U+0130>","<U+00C9>","a","c","h">> }

UnitTexts == FragStrings(MaxFrags) \cup ExampleTexts

Absent == [t |-> "absent"]

Present(item) == item[2] # Absent

\* the dict holding the items whose value is not Absent
MakeDict(items) == Dict(SelectSeq(items, Present))

\* the float a number of the JSON text denotes
Literal(text) == ParseAmount(text).value

ThreeFifty == Literal(<<"3",".","5","0">>)

UnitKeys == <<Key.PackageSize, Key.CupString, Key.CupMeasure, Key.Unit>>
FocusValues == {Absent, Null, Num(500)} \cup {Str(s) : s \in UnitTexts}
OtherValues == {Absent, Str(<<"x">>), Str(<<"p","k">>)}

\* the product whose unit field number focus holds v and whose other unit
\* fields hold o
UnitProduct(focus, v, o) ==
  MakeDict(<< <<Key.Name, Str(<<"m","i","l","k">>)>>, <<Key.Price, ThreeFifty>> >>
           \o [i \in 1..4 |-> <<UnitKeys[i], IF i = focus THEN v ELSE o[i]>>])

BodyText == <<"<body>">>

\* the body Woolworths sends for one product in one category
OneProductBody(product) ==
  Dict(<< <<Key.Products,
            List(<<Dict(<< <<Key.Name, Str(<<"c">>)>>,
                           <<Key.Products, List(<<product>>)>> >>)>>)>> >>)

DefaultLimit == 10
Milk == <<"m","i","l","k">>

InitCall ==
  /\ pc = "called"
  /\ search_results = NoOutcome
  /\ products = <<>>
  /\ result = <<>>
  /\ inv = <<>>
  /\ queue = <<>>

InitUnit ==
  /\ tool = "woolworths"
  /\ query = Milk
  /\ limit = DefaultLimit
  /\ \E focus \in 1..4, v \in FocusValues :
       \E o \in [(1..4) \ {focus} -> OtherValues] :
         response = Http(200, BodyText, Return(OneProductBody(UnitProduct(focus, v, o))))
  /\ InitCall

SpecUnit == InitUnit /\ [][NextWoolworths]_vars

\* the product of a one-product body
TheProduct ==
  Get(Get(response.json.value, Key.Products, Null).l[1], Key.Products, Null).l[1]

(***************************************************************************)
(* The four-tier ladder as the specification states it                     *)
(***************************************************************************)
\* first rule of a list of <<matches, unit>> pairs that matches
FirstMatch(rules) ==
  IF \E i \in 1..Len(rules) : rules[i][1]
  THEN rules[CHOOSE i \in 1..Len(rules) :
               rules[i][1] /\ \A j \in 1..(i - 1) : ~rules[j][1]][2]
  ELSE ""

LadderRules(text, withEa) ==
  << <<Contains(<<"k","g">>, text), "kg">>,
     <<Contains(<<"g">>, text), "g">>,
     <<Contains(<<"l">>, text) /\ ~Contains(<<"m","l">>, text), "L">>,
     <<Contains(<<"m","l">>, text), "ml">>,
     <<Contains(<<"e","a","c","h">>, text), "each">>,
     <<withEa /\ Contains(<<"e","a">>, text), "each">>,
     <<Contains(<<"p","a","c","k">>, text), "pack">>,
     <<Contains(<<"p","k">>, text), "pack">> >>

\* the text of a field, "" when the field is absent or is not text
FieldText(product, key) ==
  IF Get(product, key, Null).t = "str" THEN Get(product, key, Null).s ELSE <<>>

\* what follows the last "/" of a text, the text itself when it has none
TrailingSegment(text) ==
  IF \E i \in 1..Len(text) : text[i] = "/"
  THEN SubSeq(text, (CHOOSE i \in 1..Len(text) :
                       text[i] = "/" /\ \A j \in (i + 1)..Len(text) : text[j] # "/") + 1,
              Len(text))
  ELSE text

TierResults(product) ==
  << FirstMatch(LadderRules(Lower(FieldText(product, Key.PackageSize)), FALSE)),
     FirstMatch(LadderRules(TrailingSegment(Lower(FieldText(product, Key.CupString))), TRUE)),
     FirstMatch(LadderRules(Lower(FieldText(product, Key.CupMeasure)), FALSE)),
     IF Lower(FieldText(product, Key.Unit)) = <<"e","a","c","h">> THEN "each" ELSE "" >>

\* first entry of a sequence of units that is not "", "" if there is none
FirstResolved(r) ==
  IF \E i \in 1..Len(r) : r[i] # ""
  THEN r[CHOOSE i \in 1..Len(r) : r[i] # "" /\ \A j \in 1..(i - 1) : r[j] = ""]
  ELSE ""

ReferenceUnit(product) == FirstResolved(TierResults(product))

Searched == pc \in {"searched", "done"}

\* C2: the unit of the record equals the four-tier ladder (PackageSize,
\* trailing segment of CupString, CupMeasure, exact Unit) evaluated in that
\* order with first match inside a tier; "1kg" gives kg, "250ml" gives ml,
\* "$4.00/1kg" gives kg and "$2/ea" gives each.
UnitFollowsLadder ==
  Searched =>
    /\ search_results.status = "success"
    /\ Len(search_results.products) = 1
    /\ search_results.products[1].unit = ReferenceUnit(TheProduct)
    /\ (FieldText(TheProduct, Key.PackageSize) = <<"1","k","g">>
          => search_results.products[1].unit = "kg")
    /\ (FieldText(TheProduct, Key.PackageSize) = <<"2","5","0","m","l">>
          => search_results.products[1].unit = "ml")
    /\ ((FieldText(TheProduct, Key.CupString) = <<"$","4",".","0","0","/","1","k","g">>
           /\ TierResults(TheProduct)[1] = "")
          => search_results.products[1].unit = "kg")
    /\ ((FieldText(TheProduct, Key.CupString) = <<"$","2","/","e","a">>
           /\ TierResults(TheProduct)[1] = "")
          => search_results.products[1].unit = "each")

\* a product whose PackageSize is consulted and yields nothing and whose
\* CupString resolves through its trailing segment
UnitFromCupString ==
  /\ pc = "searched"
  /\ FieldText(TheProduct, Key.PackageSize) = <<"x">>
  /\ FieldText(TheProduct, Key.CupString) = <<"$","4",".","0","0","/","1","k","g">>
  /\ FieldText(TheProduct, Key.CupMeasure) = <<"p","k">>
  /\ search_results.products[1].unit = "kg"

(***************************************************************************)
(* Inputs of the name and price extraction: one product whose two name     *)
(* fields and three price fields vary.                                     *)
(***************************************************************************)
NameValues == {Absent, Null, Str(<<>>), Str(<<"A">>), Str(<<"B","b">>), Num(5)}

MinusOne == Literal(<<"-","1",".","0">>)
TwelveOhFive == Literal(<<"1","2",".","0","5">>)

\* 2.675 is a float just below 2.675: it is shown as 2.67
RoundedDown == Literal(<<"2",".","6","7","5">>)

PriceValues ==
  { Absent, Null, Num(0), ThreeFifty, TwelveOhFive, MinusOne, RoundedDown,
    Str(<<" ","3",".","5","0">>), Str(<<"1","e","3">>), Str(<<"i","n","f">>),
    Str(<<"a","b","c">>), Str(<<"1","<U+007F>">>), List(<<>>),
    PyInt(FALSE, <<"1">> \o Zeros(309)) }

\* the fallback prices vary for one pair of names, and are absent for the
\* other pairs
FallbackValues(dn, n) ==
  IF dn = Absent /\ n = Str(<<"A">>) THEN PriceValues ELSE {Absent}

RecordProduct(dn, n, p1, p2, p3) ==
  MakeDict(<< <<Key.DisplayName, dn>>, <<Key.Name, n>>, <<Key.Price, p1>>,
              <<Key.InstorePrice, p2>>, <<Key.WasPrice, p3>>,
              <<Key.PackageSize, Str(<<"1","k","g">>)>> >>)

InitRecord ==
  /\ tool = "woolworths"
  /\ query = Milk
  /\ limit = DefaultLimit
  /\ \E dn \in NameValues, n \in NameValues, p1 \in PriceValues :
       \E p2 \in FallbackValues(dn, n), p3 \in FallbackValues(dn, n) :
         response = Http(200, BodyText,
                         Return(OneProductBody(RecordProduct(dn, n, p1, p2, p3))))
  /\ InitCall

SpecRecord == InitRecord /\ [][NextWoolworths]_vars

Vocabulary == {"kg", "g", "L", "ml", "each", "pack", ""}

\* C3: every record of a success outcome has exactly the fields name, price,
\* unit, store; its unit is in the vocabulary; its store is the backend
\* constant; its price, when present, is a non-negative finite number.
CanonicalRecords ==
  (Searched /\ search_results.status = "success") =>
    \A i \in 1..Len(search_results.products) :
      LET r == search_results.products[i]
      IN /\ DOMAIN r = {"name", "price", "unit", "store"}
         /\ r.unit \in Vocabulary
         /\ r.store = STORE_NAME
         /\ r.price # Null =>
              /\ r.price.t = "float" /\ r.price.k = "fin"
              /\ ~r.price.neg \/ r.price.m = Zero

\* a field that is present and holds non-empty text
NonEmptyField(product, key) == Len(FieldText(product, key)) > 0

\* first of [DisplayName, Name] that is non-empty, else the empty string
ReferenceName(product) ==
  IF NonEmptyField(product, Key.DisplayName) THEN Get(product, Key.DisplayName, Null)
  ELSE IF NonEmptyField(product, Key.Name) THEN Get(product, Key.Name, Null)
  ELSE Str(<<>>)

\* C4: the name of the record is the first of [DisplayName, Name] that is
\* non-empty, the empty string if neither is, and is always text.
NameFirstNonEmpty ==
  (Searched /\ search_results.status = "success") =>
    /\ search_results.products[1].name = ReferenceName(TheProduct)
    /\ search_results.products[1].name.t = "str"

\* the candidates of the price in their order, None for an absent key
PriceCandidates(product) ==
  [i \in 1..3 |-> Get(product, <<Key.Price, Key.InstorePrice, Key.WasPrice>>[i], Null)]

\* the first candidate that is not null
FirstPresent(c) == c[CHOOSE i \in 1..3 : c[i] # Null /\ \A j \in 1..(i - 1) : c[j] = Null]

\* the amount the first candidate that is not null denotes
ReferenceAmount(c) ==
  IF \A i \in 1..3 : c[i] = Null THEN Null ELSE PyFloat(FirstPresent(c)).value

ReferencePrice(product) == ReferenceAmount(PriceCandidates(product))

\* position of a template fragment in a text
IndexOf(text, fragment) == CHOOSE i \in 1..Len(text) : text[i] = fragment

\* what the text of one record shows after "Price: "
PricePiece(text) ==
  SubSeq(text, IndexOf(text, "\nPrice: ") + 1, IndexOf(text, "\nUnit: ") - 1)

\* digits, a point and two digits
TwoDecimalAmount(body) ==
  /\ Len(body) >= 4
  /\ body[Len(body) - 2] = "."
  /\ \A i \in (1..Len(body)) \ {Len(body) - 2} : body[i] \in AsciiDigits

\* "$", an optional sign, and an amount with two decimals
TwoDecimalCurrency(piece) ==
  /\ Len(piece) > 1
  /\ piece[1] = "$"
  /\ TwoDecimalAmount(SubSeq(piece, IF piece[2] = "-" THEN 3 ELSE 2, Len(piece)))

\* C5: the price of the record is the first of [Price, InstorePrice,
\* WasPrice] that is not null (0 is a price), None exactly when all three are
\* null or absent; None is rendered "N/A", a price as "$" and two decimals.
PriceFirstNonNull ==
  (Searched /\ search_results.status = "success") =>
    /\ search_results.products[1].price = ReferencePrice(TheProduct)
    /\ search_results.products[1].price = Null
         <=> \A i \in 1..3 : PriceCandidates(TheProduct)[i] = Null
    /\ pc = "done" =>
         IF search_results.products[1].price = Null THEN PricePiece(result) = <<"N/A">>
         ELSE TwoDecimalCurrency(PricePiece(result))

(***************************************************************************)
(* Coles.  coles.py is not among the sources: its two functions are        *)
(* modelled from the specification (a flat list of records that are        *)
(* already canonical is passed through; failures become error outcomes).   *)
(***************************************************************************)
ColesBody(recs) == [t |-> "coles", products |-> recs]

coles_search_products(q, resp) ==
  IF resp.kind = "raise" THEN ErrorException(resp.message)
  ELSE IF resp.status_code # 200 THEN ErrorStatus(resp.status_code, resp.text)
  ELSE IF resp.json.raised THEN ErrorException(resp.json.message)
  ELSE [status |-> "success", query |-> q, results |-> resp.json.value]

coles_extract_products(outcome) == outcome.results.products

\* get_coles_products from the second await on
ColesText(q, lim, recs) == ListingText("Coles", q, LimitProducts(recs, lim))

\* the thread running coles_search_products returns
ColesSearch ==
  /\ tool = "coles" /\ pc = "called"
  /\ search_results' = coles_search_products(query, response)
  /\ pc' = "searched"
  /\ UNCHANGED <<tool, query, limit, response, products, result, inv, queue>>

\* get_coles_products between its two awaits: an error outcome is returned
\* as text, a success outcome is handed to coles_extract_products
ColesSearched ==
  /\ tool = "coles" /\ pc = "searched"
  /\ IF OutcomeGet(search_results, "status", "") = "error"
     THEN result' = ErrorText("Coles", search_results) /\ pc' = "done"
     ELSE result' = result /\ pc' = "extracting"
  /\ UNCHANGED <<tool, query, limit, response, search_results, products, inv, queue>>

\* the extraction returns; the list is limited and rendered
ColesReturn ==
  /\ tool = "coles" /\ pc = "extracting"
  /\ products' = LimitProducts(coles_extract_products(search_results), limit)
  /\ result' = ColesText(query, limit, coles_extract_products(search_results))
  /\ pc' = "done"
  /\ UNCHANGED <<tool, query, limit, response, search_results, inv, queue>>

NextTool ==
  \/ WoolworthsSearch
  \/ WoolworthsReturn
  \/ ColesSearch
  \/ ColesSearched
  \/ ColesReturn

(***************************************************************************)
(* Inputs of the tools: what the backend may answer                        *)
(***************************************************************************)
MaxProds == 3
MaxCats == 2
MaxLimit == 1

ProductA ==
  Dict(<< <<Key.Stockcode, Num(1)>>, <<Key.DisplayName, Str(<<"A">>)>>,
          <<Key.Price, ThreeFifty>>, <<Key.PackageSize, Str(<<"1","k","g">>)>> >>)
ProductB ==
  Dict(<< <<Key.Stockcode, Num(2)>>, <<Key.Name, Str(<<"B">>)>>, <<Key.Price, Null>>,
          <<Key.InstorePrice, Num(0)>>, <<Key.Unit, Str(<<"E","a","c","h">>)>> >>)
\* its price cannot be cast
ProductBadPrice ==
  Dict(<< <<Key.Stockcode, Num(3)>>, <<Key.Name, Str(<<"C">>)>>,
          <<Key.Price, Str(<<"a","b","c">>)>> >>)

GoodProducts == {ProductA, ProductB}
BadProducts == {ProductBadPrice, Null}

RECURSIVE SeqsUpTo(_, _)
SeqsUpTo(S, n) ==
  IF n = 0 THEN {<<>>}
  ELSE SeqsUpTo(S, n - 1) \cup {Append(s, x) : s \in SeqsUpTo(S, n - 1), x \in S}

\* lists of products: every list of good ones, and lists where a bad one
\* comes first, last or in the middle
ProductLists ==
  SeqsUpTo(GoodProducts, MaxProds)
  \cup UNION {{<<b>>, <<b, ProductA>>, <<ProductA, b>>, <<ProductA, b, ProductB>>} :
               b \in BadProducts}

NestedCategory(ps) ==
  Dict(<< <<Key.Name, Str(<<"c">>)>>, <<Key.Products, List(ps)>> >>)

\* entries that are neither a category with a product list nor a product
NeitherShape ==
  { Dict(<< <<Key.Stockcode, Num(7)>>, <<Key.Products, Null>> >>),
    Dict(<< <<Key.Name, Str(<<"p","r","o","m","o">>)>> >>),
    Str(<<"x">>), Null, Num(5) }

CategoryEntries ==
  {NestedCategory(ps) : ps \in ProductLists}
  \cup GoodProducts \cup {ProductBadPrice}
  \cup {Dict(<< <<Key.Stockcode, Num(9)>>, <<Key.Products, List(<<ProductB>>)>> >>)}
  \cup NeitherShape

DecodeError == <<"Expecting value: line 1 column 1 (char 0)">>

\* a body whose Products is v
ProductsBody(v) == Dict(<< <<Key.Products, v>> >>)

\* bodies that are not a dict, and dicts whose Products is not a list
OddBodies ==
  { Null, Bool(TRUE), Num(5), ThreeFifty, Str(<<>>), Str(<<"a","b","c">>),
    Str(<<"x">> \o Key.Products \o <<"x">>), List(<<>>), List(<<Str(Key.Products)>>),
    Dict(<< <<<<"M","e","s","s","a","g","e">>, Str(<<"x">>)>> >>),
    ProductsBody(Null), ProductsBody(List(<<>>)), ProductsBody(Num(5)),
    ProductsBody(Num(0)), ProductsBody(Bool(TRUE)), ProductsBody(NaN),
    ProductsBody(Str(<<"x","y">>)), ProductsBody(Dict(<<>>)),
    ProductsBody(Dict(<< <<Key.Name, Str(<<"c">>)>> >>)) }

WoolworthsBodies ==
  {Raise(DecodeError)}
  \cup {Return(v) : v \in OddBodies}
  \cup {Return(ProductsBody(List(cs))) : cs \in SeqsUpTo(CategoryEntries, MaxCats)}

NonOkStatus == {201, 404, 500}
RawTexts == {<<>>, <<"F","o","r","b","i","d","d","e","n">>}
NetworkErrors == {[kind |-> "raise", message |-> <<"Connection refused">>]}

WoolworthsResponses ==
  NetworkErrors
  \cup {Http(200, BodyText, j) : j \in WoolworthsBodies}
  \cup {Http(c, x, j) : c \in NonOkStatus, x \in RawTexts,
                        j \in {Raise(DecodeError),
                               Return(ProductsBody(List(<<ProductA, ProductB>>)))}}

ColesA == [name |-> Str(<<"A">>), price |-> ThreeFifty, unit |-> "kg", store |-> "coles"]
ColesB == [name |-> Str(<<"B">>), price |-> Null, unit |-> "", store |-> "coles"]

ColesResponses ==
  NetworkErrors
  \cup {Http(200, BodyText, Raise(DecodeError))}
  \cup {Http(200, BodyText, Return(ColesBody(rs))) : rs \in SeqsUpTo({ColesA, ColesB}, MaxProds)}
  \cup {Http(c, x, Raise(DecodeError)) : c \in NonOkStatus, x \in RawTexts}

OatMilk == <<"o","a","t"," ","m","i","l","k">>

\* the calls made: a query and a limit that is negative, zero, positive and
\* small, or left to its default
Calls ==
  { [query |-> Milk, limit |-> 0 - MaxLimit], [query |-> OatMilk, limit |-> 0],
    [query |-> Milk, limit |-> MaxLimit], [query |-> OatMilk, limit |-> DefaultLimit] }

InitTool ==
  /\ tool \in {"woolworths", "coles"}
  /\ \E c \in Calls : query = c.query /\ limit = c.limit
  /\ response \in IF tool = "woolworths" THEN WoolworthsResponses ELSE ColesResponses
  /\ InitCall

Spec == InitTool /\ [][NextTool]_vars

(***************************************************************************)
(* Properties of the tools                                                 *)
(***************************************************************************)
StoreLabel == IF tool = "woolworths" THEN "Woolworths" ELSE "Coles"

\* C1: when the search succeeded, a limit of zero or less gives the "No
\* products found" message whatever the number of records.
NonPositiveLimitEmpty ==
  (pc = "done" /\ search_results.status = "success" /\ limit <= 0) =>
    /\ products = <<>>
    /\ result = NoProductsText(StoreLabel, query)

\* the body is a dict whose Products is a list
HasCategoryList ==
  /\ tool = "woolworths"
  /\ response.kind = "http" /\ response.status_code = 200
  /\ ~response.json.raised
  /\ response.json.value.t = "dict"
  /\ Get(response.json.value, Key.Products, Null).t = "list"

Categories == Get(response.json.value, Key.Products, Null).l

\* the nested product list of a category
Nested(c) == Get(c, Key.Products, Null).l

IsNested(c) == IsDict(c) /\ Get(c, Key.Products, Null).t = "list"
IsSelfProduct(c) == IsDict(c) /\ ~HasKey(c, Key.Products) /\ HasKey(c, Key.Stockcode)

WellFormedProduct(p) ==
  /\ IsDict(p)
  /\ \A k \in {Key.Price, Key.InstorePrice, Key.WasPrice} :
       Get(p, k, Null).t \in {"null", "num", "float"}

WellFormedCategory(c) ==
  \/ IsNested(c) /\ \A j \in 1..Len(Nested(c)) : WellFormedProduct(Nested(c)[j])
  \/ IsSelfProduct(c) /\ WellFormedProduct(c)

MatchesNeither(c) == ~IsNested(c) /\ ~IsSelfProduct(c)

CategorySize(c) == IF IsNested(c) THEN Len(Nested(c)) ELSE 1

\* number of products in the first n categories
RECURSIVE SizeSum(_, _)
SizeSum(cats, n) ==
  IF n = 0 THEN 0 ELSE SizeSum(cats, n - 1) + CategorySize(cats[n])

\* the k-th product of the categories in source order
SourceProduct(cats, k) ==
  LET i == CHOOSE i \in 1..Len(cats) : SizeSum(cats, i - 1) < k /\ k <= SizeSum(cats, i)
  IN IF IsNested(cats[i]) THEN Nested(cats[i])[k - SizeSum(cats, i - 1)]
     ELSE cats[i]

\* the outcome is a success holding one record per product of cats, in order
FlattenedFrom(cats) ==
  /\ search_results.status = "success"
  /\ Len(search_results.products) = SizeSum(cats, Len(cats))
  /\ search_results.product_count = Len(search_results.products)
  /\ \A k \in 1..Len(search_results.products) :
       search_results.products[k] = NormalizeProduct(SourceProduct(cats, k)).value

\* C6: for well-formed categories the products list holds, in source order,
\* one record per nested product and one per category that is itself a
\* product; it is not truncated and product_count is its length.
FlattenInOrder ==
  (Searched /\ HasCategoryList /\ \A i \in 1..Len(Categories) : WellFormedCategory(Categories[i]))
    => FlattenedFrom(Categories)

\* a category of three products and a category that is a product: 4 records
FlattenThreePlusOne ==
  /\ pc = "searched" /\ HasCategoryList
  /\ Categories = <<NestedCategory(<<ProductA, ProductB, ProductA>>), ProductB>>
  /\ Len(search_results.products) = 4
  /\ search_results.products[4].name = Str(<<"B">>)

\* C7: an entry of the category list that has neither shape is skipped: the
\* outcome is a success holding exactly the records of the other entries.
NeitherShapeSkipped ==
  (/\ Searched /\ HasCategoryList
   /\ \A i \in 1..Len(Categories) :
        WellFormedCategory(Categories[i]) \/ MatchesNeither(Categories[i]))
    => FlattenedFrom(SelectSeq(Categories, WellFormedCategory))

\* ends(text, tail)
EndsWith(text, tail) ==
  Len(tail) <= Len(text) /\ SubSeq(text, Len(text) - Len(tail) + 1, Len(text)) = tail

\* C8: a status other than 200 gives an error outcome without records whose
\* message contains the status code and whose response_text is the body as
\* received, parsable or not; the text of the tool embeds both.
NonOkIsError ==
  (Searched /\ tool = "woolworths" /\ response.kind = "http" /\ response.status_code # 200)
    => /\ search_results.status = "error"
       /\ "products" \notin DOMAIN search_results
       /\ Contains(Digits(response.status_code), search_results.message)
       /\ search_results.response_text = response.text
       /\ pc = "done" =>
            /\ result[1] = "Error fetching "
            /\ Contains(search_results.message \o <<"\nResponse: ">>, result)
            /\ EndsWith(result, <<"\nResponse: ">> \o response.text)

\* a 404 whose body is valid JSON holding products is reported with its body
NotFoundReported ==
  /\ pc = "done" /\ tool = "woolworths"
  /\ response.kind = "http" /\ response.status_code = 404
  /\ ~response.json.raised
  /\ response.text = <<"F","o","r","b","i","d","d","e","n">>
  /\ search_results.status = "error"
  /\ EndsWith(result, response.text)

\* the walk of the categories meets an element it cannot handle
WalkFails(cats) ==
  \E i \in 1..Len(cats) :
    \/ ~IsDict(cats[i])
    \/ IsNested(cats[i]) /\ \E j \in 1..Len(Nested(cats[i])) :
                              Nested(cats[i])[j] \in BadProducts
    \/ IsSelfProduct(cats[i]) /\ cats[i] \in BadProducts

\* a decoded body that cannot be searched for its categories: it is not a
\* container, it is a text or a list holding "Products", or its Products is
\* something true that is not a list of categories
Unsearchable(body) ==
  \/ body.t \in {"null", "bool", "num", "float"}
  \/ body.t = "str" /\ Contains(Key.Products, body.s)
  \/ body.t = "list" /\ \E i \in 1..Len(body.l) : body.l[i] = Str(Key.Products)
  \/ /\ body.t = "dict"
     /\ Get(body, Key.Products, Null).t # "list"
     /\ Truthy(Get(body, Key.Products, Null))

\* the fetch, the decoding or the walk raises
Raising ==
  /\ tool = "woolworths"
  /\ \/ response.kind = "raise"
     \/ /\ response.kind = "http" /\ response.status_code = 200
        /\ \/ response.json.raised
           \/ ~response.json.raised /\ Unsearchable(response.json.value)
           \/ HasCategoryList /\ WalkFails(Categories)

ResultKind(text) ==
  CASE text[1] = "Name: " -> "listing"
    [] text[1] = "No products found at " -> "none"
    [] text[1] = "Error fetching " -> "error"
    [] OTHER -> "other"

\* C9: an exception while fetching or walking gives an error outcome with the
\* text of the exception and no record at all, and the tool returns an error
\* text; the tool always returns a listing, the no-products message or an
\* error message.
ExceptionsBecomeErrors ==
  (Searched /\ tool = "woolworths") =>
    /\ search_results.status \in {"success", "error"}
    /\ Raising =>
         /\ search_results.status = "error"
         /\ "products" \notin DOMAIN search_results
         /\ Len(search_results.message) > 0
         /\ response.kind = "raise" => search_results.message = response.message
         /\ (response.kind = "http" /\ response.json.raised)
              => search_results.message = response.json.message
    /\ pc = "done" =>
         /\ ResultKind(result) \in {"listing", "none", "error"}
         /\ Raising => (ResultKind(result) = "error"
                        /\ Contains(search_results.message, result))

\* a product that cannot be normalised follows one that was: nothing is kept
FailsAfterFirstProduct ==
  /\ pc = "done" /\ HasCategoryList
  /\ Categories = <<NestedCategory(<<ProductA, ProductBadPrice>>)>>
  /\ search_results.status = "error"
  /\ ResultKind(result) = "error"

(***************************************************************************)
(* Scheduling of concurrent invocations.  Each tool awaits                 *)
(* asyncio.to_thread(...): the call is queued on the default executor of   *)
(* the event loop, a thread pool of max_workers threads (CPython:          *)
(* min(32, cpu_count + 4)) that serves its queue in FIFO order.  The       *)
(* search blocks its worker inside requests.get, which is given no         *)
(* timeout: it returns only if the backend answers.                        *)
(*   inv[i].st: "idle", "queued", "running", "returned", "done"            *)
(*   inv[i].stage: 1 the search, 2 the extraction (Coles only)             *)
(*   inv[i].responds: whether the backend answers this invocation          *)
(***************************************************************************)
max_workers == 2
NumInvocations == max_workers + 1
Invocations == 1..NumInvocations

Running == {i \in DOMAIN inv : inv[i].st = "running"}

\* a tool is invoked and runs to its first await: the search is submitted
Call(i) ==
  /\ inv[i].st = "idle"
  /\ inv' = [inv EXCEPT ![i].st = "queued"]
  /\ queue' = Append(queue, i)
  /\ UNCHANGED <<tool, query, limit, response, pc, search_results, products, result>>

\* a free worker thread takes the call at the head of the queue
Dispatch ==
  /\ Len(queue) > 0
  /\ Cardinality(Running) < max_workers
  /\ inv' = [inv EXCEPT ![Head(queue)].st = "running"]
  /\ queue' = Tail(queue)
  /\ UNCHANGED <<tool, query, limit, response, pc, search_results, products, result>>

\* the function run by the worker returns: requests.get got its answer, or
\* the extraction, which does no I/O, finished
ThreadReturns(i) ==
  /\ inv[i].st = "running"
  /\ inv[i].stage = 2 \/ inv[i].responds
  /\ inv' = [inv EXCEPT ![i].st = "returned"]
  /\ UNCHANGED <<tool, query, limit, response, pc, search_results, products, result,
                 queue>>

\* the event loop resumes the coroutine after its await: it returns its
\* text, or (Coles, success outcome) submits the extraction
Resume(i) ==
  /\ inv[i].st = "returned"
  /\ \/ /\ inv[i].tool = "coles" /\ inv[i].stage = 1
        /\ inv' = [inv EXCEPT ![i].st = "queued", ![i].stage = 2]
        /\ queue' = Append(queue, i)
     \/ /\ inv' = [inv EXCEPT ![i].st = "done"]
        /\ queue' = queue
  /\ UNCHANGED <<tool, query, limit, response, pc, search_results, products, result>>

NextPool ==
  \/ \E i \in Invocations : Call(i)
  \/ Dispatch
  \/ \E i \in Invocations : ThreadReturns(i)
  \/ \E i \in Invocations : Resume(i)

InitPool ==
  /\ inv \in [Invocations -> [tool : {"woolworths", "coles"}, st : {"idle"},
                              stage : {1}, responds : BOOLEAN]]
  /\ queue = <<>>
  /\ tool = "none"
  /\ query = <<>>
  /\ limit = DefaultLimit
  /\ response = [kind |-> "none"]
  /\ pc = "none"
  /\ search_results = NoOutcome
  /\ products = <<>>
  /\ result = <<>>

\* the pool and the event loop keep running: a free worker takes queued
\* work, an answered fetch returns, a finished await is resumed
SpecPool ==
  /\ InitPool
  /\ [][NextPool]_vars
  /\ WF_vars(Dispatch)
  /\ \A i \in Invocations : WF_vars(ThreadReturns(i)) /\ WF_vars(Resume(i))

\* C10: an invocation whose backend answers is dispatched and returns its
\* result whatever the other invocations in flight do, blocked ones included.
NoHeadOfLineBlocking ==
  \A i \in Invocations :
    (inv[i].st = "queued" /\ inv[i].responds) ~> (inv[i].st = "done")

====
